---- MODULE Spec2Model ----
(***************************************************************************)
(* Model of the chart scripts of the self-healing-cache repository:        *)
(*   src/visualize_metrics.py, src/generate_thesis_charts.py,              *)
(*   src/generate_better_charts.py.                                        *)
(*                                                                         *)
(* The hitRate of a point of a time series, which the code only compares   *)
(* with 0.90 and 0.95, is kept as an integer percentage: 0.90 is 90.  A    *)
(* quotient of two integers (the mean of recovery times, a percentage      *)
(* improvement of error counts) is kept as the exact rational [num, den]   *)
(* and compared by cross-multiplication.  The fractional fields that are   *)
(* averaged or integrated are binary floating-point values, and their      *)
(* arithmetic rounds.                                                      *)
(***************************************************************************)
EXTENDS Integers, Sequences, FiniteSets, TLC

VARIABLES
    pc,              \* position of the running script or function
    timeseries,      \* calculate_mttr: the Sample Point sequence scanned
    recovery_times,  \* calculate_mttr: the list it collected
    mttr,            \* calculate_mttr: the value returned
    scenarios,       \* data['scenarios'] of the experiment file in use
    outcome,         \* "ok", or the exception a call ended with
    result,          \* values a chart function computed before drawing
    files,           \* image files written under charts/
    fs,              \* experiment_results/: file name -> content
    loaded,          \* load_experiment_data: the three mappings returned
    latest_experiment, \* main: the experiment file chosen
    calls,           \* main: chart calls entered so far, in order
    log,             \* main: console lines that matter to the claims
    passed,          \* main: the experiment_file argument of each call
    order,           \* the order in which main makes its chart calls
    rng,             \* numpy's global generator: seed and values drawn
    images           \* image path -> what the image written there shows

vars == <<pc, timeseries, recovery_times, mttr, scenarios, outcome, result,
          files, fs, loaded, latest_experiment, calls, log, passed,
          order, rng, images>>

\* Groups of variables, for the actions that leave them alone.
mttrVars == <<timeseries, recovery_times, mttr>>
diskVars == <<fs, loaded, latest_experiment>>
mainVars == <<calls, log, passed>>
orderVars == <<order, rng, images>>

\* Value of a variable a specification does not use.
Idle == "idle"

MttrIdle == timeseries = Idle /\ recovery_times = <<>> /\ mttr = Idle
DiskIdle == fs = Idle /\ loaded = Idle /\ latest_experiment = Idle
MainIdle == calls = <<>> /\ log = <<>> /\ passed = <<>>
OrderIdle == order = Idle /\ rng = Idle /\ images = Idle

(***************************************************************************)
(* Bounds of the model.                                                    *)
(***************************************************************************)
MaxLen == 4
MaxReq == 3

(***************************************************************************)
(* Helpers: Python values.                                                 *)
(***************************************************************************)
\* Python's None and a present value, for a variable that holds either.
None == <<>>
Some(v) == <<v>>

RECURSIVE SeqSum(_)
SeqSum(s) == IF s = <<>> THEN 0 ELSE Head(s) + SeqSum(Tail(s))

\* An exact quotient and the integer literal 0 / n as quotients.
Ratio(n, d) == [num |-> n, den |-> d]
IntVal(n) == Ratio(n, 1)
RatEq(a, b) == a.num * b.den = b.num * a.den
RatGt(a, b) == a.num * b.den > b.num * a.den

np_mean(xs) == Ratio(SeqSum(xs), Len(xs))

(***************************************************************************)
(* Binary floating point.  The fractional fields of the records            *)
(* (successRate, hitRate, avgResponseTime, avgLatency) are Python floats:  *)
(* every sum, product and quotient of them is rounded to the nearest       *)
(* representable value, ties to even.  The model keeps the format of       *)
(* IEEE 754 with a significand of Precision bits instead of 53 and with    *)
(* no bound on the exponent: a value is m * 2^e with                       *)
(* 2^(Precision-1) <= |m| < 2^Precision, or zero.                          *)
(***************************************************************************)
Precision == 4

RECURSIVE Pow2(_)
Pow2(k) == IF k = 0 THEN 1 ELSE 2 * Pow2(k - 1)

RECURSIVE IntPow(_, _)
IntPow(b, k) == IF k = 0 THEN 1 ELSE b * IntPow(b, k - 1)

Float(m, e) == [m |-> m, e |-> e]
FloatZero == Float(0, 0)
NaN == [nan |-> TRUE]

\* The float nearest to (p / q) * 2^e, for q > 0; rounding to nearest, ties
\* to even, is symmetric about zero.
RECURSIVE fl_round(_, _, _)
fl_round(p, q, e) ==
    IF p = 0 THEN FloatZero
    ELSE IF p < 0 THEN LET r == fl_round(0 - p, q, e) IN Float(0 - r.m, r.e)
    ELSE IF p >= q * Pow2(Precision) THEN fl_round(p, 2 * q, e + 1)
    ELSE IF p < q * Pow2(Precision - 1) THEN fl_round(2 * p, q, e - 1)
    ELSE LET down == p \div q
             rest == p % q
             up == 2 * rest > q \/ (2 * rest = q /\ down % 2 = 1)
             m == IF up THEN down + 1 ELSE down
         IN  IF m = Pow2(Precision)
             THEN Float(Pow2(Precision - 1), e + 1)
             ELSE Float(m, e)

Smaller(i, j) == IF i <= j THEN i ELSE j

\* a + b
fl_add(a, b) ==
    LET e == Smaller(a.e, b.e)
    IN  IF a.m = 0 THEN b
        ELSE IF b.m = 0 THEN a
        ELSE fl_round(a.m * Pow2(a.e - e) + b.m * Pow2(b.e - e), 1, e)

\* a * b
fl_mul(a, b) == fl_round(a.m * b.m, 1, a.e + b.e)

\* a / n, for an int n > 0 that converts to a float exactly
fl_div_int(a, n) == fl_round(a.m, n, a.e)

\* float(n), for an int n
fl_from_int(n) == fl_round(n, 1, 0)

\* a * ka <= b * kb in exact arithmetic, for ints ka, kb > 0
fl_scaled_le(a, ka, b, kb) ==
    LET e == Smaller(a.e, b.e)
    IN  a.m * Pow2(a.e - e) * ka <= b.m * Pow2(b.e - e) * kb

fl_le(a, b) == fl_scaled_le(a, 1, b, 1)

\* The elements added one after the other, as np.add.reduce does for a
\* short array.
RECURSIVE fl_sum(_)
fl_sum(xs) ==
    IF xs = <<>> THEN FloatZero
    ELSE fl_add(fl_sum(SubSeq(xs, 1, Len(xs) - 1)), xs[Len(xs)])

\* Mutant: the sum is divided by one less than the number of elements.
np_mean_float_ddof(xs) ==
    IF xs = <<>> THEN NaN
    ELSE fl_div_int(fl_sum(xs), IF Len(xs) > 1 THEN Len(xs) - 1 ELSE 1)

\* np.mean of a list of floats: the rounded sum divided by the length;
\* nan for an empty list.
np_mean_float(xs) ==
    IF xs = <<>> THEN NaN ELSE fl_div_int(fl_sum(xs), Len(xs))

(***************************************************************************)
(* calculate_mttr (visualize_metrics.py, nested in create_mttr_comparison) *)
(***************************************************************************)
FailureThreshold == 90
RecoveryThreshold == 95

\* State of the scan before the first point.
ScanInit == [failure_start |-> None, recovery_times |-> <<>>]

\* Mutant: the recovery time is counted inclusively (one request too many).
ScanPointShifted(st, point) ==
    IF point.hitRate < FailureThreshold /\ st.failure_start = None
    THEN [st EXCEPT !.failure_start = Some(point.requestNumber)]
    ELSE IF point.hitRate >= RecoveryThreshold /\ st.failure_start # None
         THEN [failure_start |-> None,
               recovery_times |-> Append(st.recovery_times,
                    point.requestNumber - st.failure_start[1] + 1)]
         ELSE st

\* Mutant: a point at exactly the recovery threshold also counts as a failure.
ScanPointOpensAtRecovery(st, point) ==
    IF point.hitRate <= RecoveryThreshold /\ st.failure_start = None
    THEN [st EXCEPT !.failure_start = Some(point.requestNumber)]
    ELSE IF point.hitRate >= RecoveryThreshold /\ st.failure_start # None
         THEN [failure_start |-> None,
               recovery_times |-> Append(st.recovery_times,
                    point.requestNumber - st.failure_start[1])]
         ELSE st

\* Mutant: a single threshold, the window closes as soon as the rate is back
\* at the failure threshold.
ScanPointSingleThreshold(st, point) ==
    IF point.hitRate < FailureThreshold /\ st.failure_start = None
    THEN [st EXCEPT !.failure_start = Some(point.requestNumber)]
    ELSE IF point.hitRate >= FailureThreshold /\ st.failure_start # None
         THEN [failure_start |-> None,
               recovery_times |-> Append(st.recovery_times,
                    point.requestNumber - st.failure_start[1])]
         ELSE st

\* Mutant: every point below the failure threshold restarts the window.
ScanPointRestarting(st, point) ==
    IF point.hitRate < FailureThreshold
    THEN [st EXCEPT !.failure_start = Some(point.requestNumber)]
    ELSE IF point.hitRate >= RecoveryThreshold /\ st.failure_start # None
         THEN [failure_start |-> None,
               recovery_times |-> Append(st.recovery_times,
                    point.requestNumber - st.failure_start[1])]
         ELSE st

\* Mutant: the difference is taken the other way round.
ScanPointReversed(st, point) ==
    IF point.hitRate < FailureThreshold /\ st.failure_start = None
    THEN [st EXCEPT !.failure_start = Some(point.requestNumber)]
    ELSE IF point.hitRate >= RecoveryThreshold /\ st.failure_start # None
         THEN [failure_start |-> None,
               recovery_times |-> Append(st.recovery_times,
                    st.failure_start[1] - point.requestNumber)]
         ELSE st

\* One iteration of the loop over the points.
ScanPoint(st, point) ==
    IF point.hitRate < FailureThreshold /\ st.failure_start = None
    THEN [st EXCEPT !.failure_start = Some(point.requestNumber)]
    ELSE IF point.hitRate >= RecoveryThreshold /\ st.failure_start # None
         THEN [failure_start |-> None,
               recovery_times |-> Append(st.recovery_times,
                    point.requestNumber - st.failure_start[1])]
         ELSE st

\* The loop state after the first k points.
RECURSIVE ScanState(_, _)
ScanState(ts, k) ==
    IF k = 0 THEN ScanInit ELSE ScanPoint(ScanState(ts, k - 1), ts[k])

\* Mutant: the mean is taken over one sample too many.
MttrOfTimesOffByOne(times) ==
    IF times # <<>> THEN Ratio(SeqSum(times), Len(times) + 1) ELSE IntVal(0)

\* return np.mean(recovery_times) if recovery_times else 0
MttrOfTimes(times) ==
    IF times # <<>> THEN np_mean(times) ELSE IntVal(0)

\* Mutant: a window still open after the last point is closed at that point.
ScanAllClosingAtEnd(ts) ==
    LET st == ScanState(ts, Len(ts))
    IN  IF st.failure_start # None
        THEN [failure_start |-> None,
              recovery_times |-> Append(st.recovery_times,
                   ts[Len(ts)].requestNumber - st.failure_start[1])]
        ELSE st

\* The whole loop.
ScanAll(ts) == ScanState(ts, Len(ts))

calculate_mttr(ts) == MttrOfTimes(ScanAll(ts).recovery_times)

(***************************************************************************)
(* Specification SpecMttr: calculate_mttr applied to a bounded series.     *)
(***************************************************************************)
HitRates == {85, 90, 95}

Points == [requestNumber : 0..MaxReq, hitRate : HitRates]

Pt(r, h) == [requestNumber |-> r, hitRate |-> h]

\* The series of the specification's example.
ExampleSeries == <<Pt(1, 99), Pt(2, 85), Pt(3, 80), Pt(4, 96)>>

SeriesInputs ==
    UNION {[1..n -> Points] : n \in 0..MaxLen} \cup {ExampleSeries}

InitMttr ==
    /\ pc = "mttr_call"
    /\ timeseries \in SeriesInputs
    /\ recovery_times = <<>>
    /\ mttr = Idle
    /\ scenarios = Idle
    /\ outcome = Idle
    /\ result = Idle
    /\ files = {}
    /\ DiskIdle
    /\ MainIdle
    /\ OrderIdle

CalculateMttr ==
    /\ pc = "mttr_call"
    /\ recovery_times' = ScanAll(timeseries).recovery_times
    /\ mttr' = calculate_mttr(timeseries)
    /\ pc' = "mttr_done"
    /\ UNCHANGED <<orderVars, timeseries, scenarios, outcome, result, files, diskVars,
                   mainVars>>

NextMttr == CalculateMttr

SpecMttr == InitMttr /\ [][NextMttr]_vars

(***************************************************************************)
(* Failure windows of a series, stated from the points alone.              *)
(***************************************************************************)
Hit(ts, i) == ts[i].hitRate
Req(ts, i) == ts[i].requestNumber

\* Point o is below 0.90 and no earlier failure is still unrecovered at o.
OpensAt(ts, o) ==
    /\ o \in 1..Len(ts)
    /\ Hit(ts, o) < 90
    /\ \A j \in 1..(o - 1) :
          Hit(ts, j) < 90 => \E q \in (j + 1)..(o - 1) : Hit(ts, q) >= 95

\* Point c is the first point after o at or above 0.95.
ClosesAt(ts, o, c) ==
    /\ c \in (o + 1)..Len(ts)
    /\ Hit(ts, c) >= 95
    /\ \A q \in (o + 1)..(c - 1) : Hit(ts, q) < 95

ClosedWindows(ts) ==
    {w \in {o \in 1..Len(ts) : OpensAt(ts, o)} \X (1..Len(ts)) :
        ClosesAt(ts, w[1], w[2])}

WindowTime(ts, w) == Req(ts, w[2]) - Req(ts, w[1])

RECURSIVE WindowTimeSum(_, _)
WindowTimeSum(ts, ws) ==
    IF ws = {} THEN 0
    ELSE LET w == CHOOSE v \in ws : TRUE
         IN  WindowTime(ts, w) + WindowTimeSum(ts, ws \ {w})

\* A window is open after the last point.
OpenAtEnd(ts) ==
    \E o \in 1..Len(ts) :
        OpensAt(ts, o) /\ \A c \in (o + 1)..Len(ts) : Hit(ts, c) < 95

\* The series has a failure, and nothing after its first failure recovers.
FirstWindowNeverCloses(ts) ==
    \E o \in 1..Len(ts) :
        /\ Hit(ts, o) < 90
        /\ \A j \in 1..(o - 1) : Hit(ts, j) >= 90
        /\ \A c \in (o + 1)..Len(ts) : Hit(ts, c) < 95

\* C3: calculate_mttr records, for each failure window (opened at the first
\* point below 0.90 while none is open, closed at the first later point at
\* or above 0.95), requestNumber(close) - requestNumber(open), in order; on
\* the series [(1,0.99),(2,0.85),(3,0.80),(4,0.96)] it returns 2.
C3_WindowsRecorded ==
    pc = "mttr_done" =>
        LET closed == ClosedWindows(timeseries)
        IN  /\ Len(recovery_times) = Cardinality(closed)
            /\ \A w \in closed :
                  \* w's position among the closed windows, by opening point
                  recovery_times[Cardinality({v \in closed : v[1] <= w[1]})]
                      = WindowTime(timeseries, w)
            /\ timeseries = ExampleSeries => RatEq(mttr, IntVal(2))

C3_Witness ==
    /\ pc = "mttr_done"
    /\ timeseries = ExampleSeries
    /\ recovery_times = <<2>>

\* C4: with several closed failure windows, the value returned is the sum of
\* the per-window request-number differences divided by the number of
\* closed windows.
C4_MeanOfRecoveryTimes ==
    pc = "mttr_done" =>
        LET closed == ClosedWindows(timeseries)
        IN  closed # {} =>
               /\ mttr.den > 0
               /\ mttr.num * Cardinality(closed)
                    = WindowTimeSum(timeseries, closed) * mttr.den

C4_Witness ==
    /\ pc = "mttr_done"
    /\ Cardinality(ClosedWindows(timeseries)) = 2
    /\ recovery_times = <<1, 2>>
    /\ RatEq(mttr, Ratio(3, 2))

\* C5: a series whose failure window never closes yields 0, and a window
\* still open after the last point adds no sample: the samples are exactly
\* those of the closed windows and the value is their mean (0 if none).
C5_OpenWindowIgnored ==
    pc = "mttr_done" =>
        /\ FirstWindowNeverCloses(timeseries) =>
              recovery_times = <<>> /\ RatEq(mttr, IntVal(0))
        /\ OpenAtEnd(timeseries) =>
              LET closed == ClosedWindows(timeseries)
              IN  /\ Len(recovery_times) = Cardinality(closed)
                  /\ mttr.num * Len(recovery_times)
                       = WindowTimeSum(timeseries, closed) * mttr.den

C5_Witness ==
    /\ pc = "mttr_done"
    /\ OpenAtEnd(timeseries)
    /\ Len(recovery_times) = 1
    /\ Req(timeseries, Len(timeseries)) > Req(timeseries, Len(timeseries) - 1)

\* C6: a series whose every point has hitRate >= 0.95 yields 0, because no
\* failure window ever opens.
C6_AllAboveThresholdIsZero ==
    (pc = "mttr_done" /\ \A i \in 1..Len(timeseries) : Hit(timeseries, i) >= 95)
        => recovery_times = <<>> /\ RatEq(mttr, IntVal(0))

C6_Witness ==
    /\ pc = "mttr_done"
    /\ Len(timeseries) >= 2
    /\ \A i \in 1..Len(timeseries) : Hit(timeseries, i) >= 95
    /\ Req(timeseries, 1) < Req(timeseries, 2)
    /\ RatEq(mttr, IntVal(0))

\* The point at position k lies in the band between the two thresholds.
InBand(ts, k) == Hit(ts, k) >= 90 /\ Hit(ts, k) < 95

\* A window is open after the first k points.
OpenAfter(ts, k) == ScanState(ts, k).failure_start # None

\* C21: calculate_mttr is a two-threshold hysteresis detector: a point whose
\* hitRate lies in [0.90, 0.95) neither opens nor closes a failure window,
\* whatever the window state: the loop state after it is the state before.
C21_BandPointChangesNothing ==
    pc = "mttr_done" =>
        \A k \in 1..Len(timeseries) :
            InBand(timeseries, k) =>
                ScanState(timeseries, k) = ScanState(timeseries, k - 1)

\* A band point met with a window open, another met with none open, and a
\* recovery recorded after the first.
C21_Witness ==
    /\ pc = "mttr_done"
    /\ \E k \in 1..Len(timeseries) :
          InBand(timeseries, k) /\ OpenAfter(timeseries, k - 1)
    /\ \E k \in 1..Len(timeseries) :
          InBand(timeseries, k) /\ ~OpenAfter(timeseries, k - 1)
    /\ recovery_times # <<>>

\* C22: at most one failure window is open at any point of the scan (the
\* loop keeps one start or none), a further point below 0.90 met while a
\* window is open leaves the recorded start unchanged, and the start is the
\* requestNumber of the first point below 0.90 since the last close or the
\* beginning.
C22_OneWindowStartKept ==
    pc = "mttr_done" =>
        \A k \in 1..Len(timeseries) :
            LET before == ScanState(timeseries, k - 1)
                after == ScanState(timeseries, k)
            IN  /\ after.failure_start = None \/ Len(after.failure_start) = 1
                /\ (before.failure_start # None /\ Hit(timeseries, k) < 90)
                      => after = before
                /\ after.failure_start # None =>
                      \E o \in 1..k :
                          /\ OpensAt(timeseries, o)
                          /\ \A q \in (o + 1)..k : Hit(timeseries, q) < 95
                          /\ after.failure_start = Some(Req(timeseries, o))

\* A second point below 0.90, with another requestNumber, met while the
\* window is open, and the window then closed from the first.
C22_Witness ==
    /\ pc = "mttr_done"
    /\ \E k \in 2..Len(timeseries) :
          /\ OpenAfter(timeseries, k - 1)
          /\ Hit(timeseries, k) < 90
          /\ ScanState(timeseries, k - 1).failure_start
                # Some(Req(timeseries, k))
    /\ recovery_times # <<>>

NonDecreasing(ts) ==
    \A i \in 1..(Len(ts) - 1) : Req(ts, i) <= Req(ts, i + 1)

StrictlyIncreasing(ts) ==
    \A i \in 1..(Len(ts) - 1) : Req(ts, i) < Req(ts, i + 1)

\* C23: when the series is ordered by non-decreasing requestNumber every
\* recovery time recorded is >= 0 (> 0 when requestNumber is strictly
\* increasing), and the value returned is not negative.
C23_RecoveryTimesNotNegative ==
    pc = "mttr_done" =>
        /\ NonDecreasing(timeseries) =>
              /\ \A i \in 1..Len(recovery_times) : recovery_times[i] >= 0
              /\ mttr.den > 0 /\ mttr.num >= 0
        /\ StrictlyIncreasing(timeseries) =>
              \A i \in 1..Len(recovery_times) : recovery_times[i] > 0

\* An ordered series with a repeated requestNumber whose window closes at
\* the request it opened at, next to a later window of positive length.
C23_Witness ==
    /\ pc = "mttr_done"
    /\ NonDecreasing(timeseries)
    /\ ~StrictlyIncreasing(timeseries)
    /\ Len(recovery_times) = 2
    /\ recovery_times[1] = 0
    /\ recovery_times[2] > 0

(***************************************************************************)
(* Experiment records: data['scenarios'], a dict in insertion order, kept  *)
(* as a sequence of [name, value] entries with distinct names.             *)
(***************************************************************************)
MaxErr == 2

Variants == <<"baseline", "selfHealing", "selfHealingML">>

\* A Variant Metrics object with f failed requests.
SampleMetrics(f) ==
    [totalRequests |-> 10, failedRequests |-> f,
     successRate |-> fl_round(15, 16, 0), hitRate |-> fl_round(7, 8, 0),
     avgResponseTime |-> fl_from_int(12)]

\* The same object without one of its keys.
DropField(vm, field) == [k \in DOMAIN vm \ {field} |-> vm[k]]

VariantMetrics ==
    {SampleMetrics(f) : f \in 0..MaxErr}
        \cup {DropField(SampleMetrics(0), "failedRequests")}

ScenarioResults ==
    [baseline : VariantMetrics, selfHealing : VariantMetrics,
     selfHealingML : VariantMetrics]

ChartScenarioNames == {"high_failure", "cascading_failure"}

DistinctNames(sc) ==
    \A i, j \in 1..Len(sc) : sc[i].name = sc[j].name => i = j

\* The documented example: two scenarios with 5 and 3 failures.
ExampleSumRecord ==
    <<[name |-> "high_failure",
       value |-> [v \in {"baseline", "selfHealing", "selfHealingML"} |->
                     SampleMetrics(5)]],
      [name |-> "cascading_failure",
       value |-> [v \in {"baseline", "selfHealing", "selfHealingML"} |->
                     SampleMetrics(3)]]>>

\* Floats of one binade, [0.5, 1), for the fractions of a record.
FloatSamples ==
    {Float(m, 0 - Precision) : m \in Pow2(Precision - 1)..(Pow2(Precision) - 1)}

\* A Variant Metrics object whose fractional fields derive from x.
RateMetrics(x) ==
    [totalRequests |-> 10, failedRequests |-> 1,
     successRate |-> x, hitRate |-> fl_mul(x, x),
     avgResponseTime |-> fl_mul(x, fl_from_int(12))]

RateScenarioNames ==
    <<"high_failure", "cascading_failure", "gradual_degradation">>

\* Records of up to three scenarios; the three variants of a scenario hold
\* the same figures.
RateRecords ==
    UNION {{[i \in 1..n |->
                [name |-> RateScenarioNames[i],
                 value |-> [v \in {"baseline", "selfHealing", "selfHealingML"}
                               |-> RateMetrics(xs[i])]]] :
               xs \in [1..n -> FloatSamples]} :
           n \in 1..Len(RateScenarioNames)}

\* A record with one row of each kind: ML and Self-Healing level, ML ahead,
\* Self-Healing ahead; the totals of the two are equal.
WinnerExampleRecord ==
    [i \in 1..3 |->
        [name |-> RateScenarioNames[i],
         value |-> [baseline |-> SampleMetrics(2),
                    selfHealing |-> SampleMetrics(<<1, 2, 1>>[i]),
                    selfHealingML |-> SampleMetrics(<<1, 1, 2>>[i])]]]

ExperimentRecords ==
    {sc \in UNION {[1..n -> [name : ChartScenarioNames, value : ScenarioResults]] :
                      n \in 0..Cardinality(ChartScenarioNames)} :
        DistinctNames(sc)}
    \cup {ExampleSumRecord, WinnerExampleRecord}
    \cup RateRecords

\* A call's end: a value returned, or an exception raised.
Returned(v) == [ok |-> TRUE, val |-> v]
Raised(e) == [ok |-> FALSE, exc |-> e]

AllOk(rs) == \A i \in 1..Len(rs) : rs[i].ok

\* The exception of the first of several evaluations, in order, that raised.
FirstRaised(rs) ==
    LET i == CHOOSE k \in 1..Len(rs) :
                 ~rs[k].ok /\ \A j \in 1..(k - 1) : rs[j].ok
    IN  Raised(rs[i].exc)

\* s[variant][field] for s in scenarios.values(): KeyError when a key is absent.
FieldValues(sc, variant, field) ==
    IF \E i \in 1..Len(sc) : field \notin DOMAIN sc[i].value[variant]
    THEN Raised("KeyError")
    ELSE Returned([i \in 1..Len(sc) |-> sc[i].value[variant][field]])

\* Mutant: only the first scenario is counted.
sum_field_first_only(sc, variant, field) ==
    LET vs == FieldValues(sc, variant, field)
    IN  IF vs.ok
        THEN Returned(IF vs.val = <<>> THEN 0 ELSE Head(vs.val))
        ELSE vs

\* sum(s[variant][field] for s in scenarios.values())
sum_field(sc, variant, field) ==
    LET vs == FieldValues(sc, variant, field)
    IN  IF vs.ok THEN Returned(SeqSum(vs.val)) ELSE vs

\* np.mean([s[variant][field] for s in scenarios.values()])
mean_field(sc, variant, field) ==
    LET vs == FieldValues(sc, variant, field)
    IN  IF vs.ok THEN Returned(np_mean_float(vs.val)) ELSE vs

\* (before - after) / before * 100
pct_improvement(before, after) ==
    IF before = 0 THEN Raised("ZeroDivisionError")
    ELSE Returned(Ratio((before - after) * 100, before))

\* (before - after) / before * 100 if before > 0 else 0
pct_improvement_guarded(before, after) ==
    IF before > 0 THEN pct_improvement(before, after) ELSE Returned(IntVal(0))

(***************************************************************************)
(* generate_thesis_charts.py                                               *)
(***************************************************************************)
\* The dict of aggregated metrics of one variant.
thesis_metrics(sc, variant) ==
    LET parts == <<sum_field(sc, variant, "failedRequests"),
                   sum_field(sc, variant, "totalRequests"),
                   mean_field(sc, variant, "successRate"),
                   mean_field(sc, variant, "hitRate"),
                   mean_field(sc, variant, "avgResponseTime")>>
    IN  IF AllOk(parts)
        THEN Returned([failedRequests |-> parts[1].val,
                       totalRequests |-> parts[2].val,
                       successRate |-> parts[3].val,
                       hitRate |-> parts[4].val,
                       avgResponseTime |-> parts[5].val])
        ELSE FirstRaised(parts)

thesis_create_comparison_bar_chart(sc) ==
    LET parts == <<thesis_metrics(sc, "baseline"),
                   thesis_metrics(sc, "selfHealing"),
                   thesis_metrics(sc, "selfHealingML")>>
    IN  IF AllOk(parts)
        THEN Returned([baseline_metrics |-> parts[1].val,
                       sh_metrics |-> parts[2].val,
                       ml_metrics |-> parts[3].val])
        ELSE FirstRaised(parts)

thesis_create_improvement_chart(sc) ==
    LET errors == <<sum_field(sc, "baseline", "failedRequests"),
                    sum_field(sc, "selfHealing", "failedRequests"),
                    sum_field(sc, "selfHealingML", "failedRequests")>>
    IN  IF ~AllOk(errors) THEN FirstRaised(errors)
        ELSE LET baseline_errors == errors[1].val
                 sh_errors == errors[2].val
                 ml_errors == errors[3].val
                 imps == <<pct_improvement(baseline_errors, sh_errors),
                           pct_improvement(baseline_errors, ml_errors),
                           pct_improvement_guarded(sh_errors, ml_errors)>>
             IN  IF AllOk(imps)
                 THEN Returned([baseline_errors |-> baseline_errors,
                                sh_errors |-> sh_errors,
                                ml_errors |-> ml_errors,
                                sh_improvement |-> imps[1].val,
                                ml_improvement |-> imps[2].val,
                                ml_vs_sh_improvement |-> imps[3].val])
                 ELSE FirstRaised(imps)

\* Mutant: the row's winner is settled as the TOTAL row's is, with no tie.
row_winner_without_tie(ml_err, sh_err) ==
    IF ml_err <= sh_err THEN "ML" ELSE "Self-Healing"

\* winner of one scenario's row
row_winner(ml_err, sh_err) ==
    IF ml_err = sh_err THEN "Tie"
    ELSE IF ml_err <= sh_err THEN "ML" ELSE "Self-Healing"

\* winner of the TOTAL row
total_winner(total_ml, total_sh) ==
    IF total_ml <= total_sh THEN "ML" ELSE "Self-Healing"

\* One pass of the loop over scenarios.items().
thesis_table_row(entry) ==
    IF \E k \in 1..3 : "failedRequests" \notin DOMAIN entry.value[Variants[k]]
    THEN Raised("KeyError")
    ELSE LET b_err == entry.value["baseline"]["failedRequests"]
             sh_err == entry.value["selfHealing"]["failedRequests"]
             ml_err == entry.value["selfHealingML"]["failedRequests"]
         IN  Returned([name |-> entry.name, b_err |-> b_err,
                       sh_err |-> sh_err, ml_err |-> ml_err,
                       sh_imp |-> pct_improvement_guarded(b_err, sh_err).val,
                       ml_imp |-> pct_improvement_guarded(b_err, ml_err).val,
                       winner |-> row_winner(ml_err, sh_err)])

\* The TOTAL row.
thesis_table_total(sc) ==
    LET totals == <<sum_field(sc, "baseline", "failedRequests"),
                    sum_field(sc, "selfHealing", "failedRequests"),
                    sum_field(sc, "selfHealingML", "failedRequests")>>
    IN  IF ~AllOk(totals) THEN FirstRaised(totals)
        ELSE LET total_b == totals[1].val
                 total_sh == totals[2].val
                 total_ml == totals[3].val
                 imps == <<pct_improvement(total_b, total_sh),
                           pct_improvement(total_b, total_ml)>>
             IN  IF AllOk(imps)
                 THEN Returned([name |-> "TOTAL", b_err |-> total_b,
                                sh_err |-> total_sh, ml_err |-> total_ml,
                                sh_imp |-> imps[1].val, ml_imp |-> imps[2].val,
                                winner |-> total_winner(total_ml, total_sh)])
                 ELSE FirstRaised(imps)

thesis_create_summary_table(sc) ==
    LET rows == [i \in 1..Len(sc) |-> thesis_table_row(sc[i])]
        total == thesis_table_total(sc)
    IN  IF ~AllOk(rows) THEN FirstRaised(rows)
        ELSE IF ~total.ok THEN total
        ELSE Returned([rows |-> [i \in 1..Len(sc) |-> rows[i].val],
                       total |-> total.val])

(***************************************************************************)
(* generate_better_charts.py                                               *)
(***************************************************************************)
better_create_combined_metrics_chart(sc) ==
    LET parts == <<sum_field(sc, "baseline", "failedRequests"),
                   sum_field(sc, "selfHealing", "failedRequests"),
                   sum_field(sc, "selfHealingML", "failedRequests"),
                   mean_field(sc, "baseline", "successRate"),
                   mean_field(sc, "selfHealing", "successRate"),
                   mean_field(sc, "selfHealingML", "successRate"),
                   mean_field(sc, "baseline", "hitRate"),
                   mean_field(sc, "selfHealing", "hitRate"),
                   mean_field(sc, "selfHealingML", "hitRate"),
                   mean_field(sc, "baseline", "avgResponseTime"),
                   mean_field(sc, "selfHealing", "avgResponseTime"),
                   mean_field(sc, "selfHealingML", "avgResponseTime")>>
    IN  IF AllOk(parts)
        THEN Returned([errors |-> <<parts[1].val, parts[2].val, parts[3].val>>,
                       success_rates |-> <<parts[4].val, parts[5].val, parts[6].val>>,
                       hit_rates |-> <<parts[7].val, parts[8].val, parts[9].val>>,
                       latencies |-> <<parts[10].val, parts[11].val, parts[12].val>>])
        ELSE FirstRaised(parts)

(***************************************************************************)
(* Specification SpecCharts: one chart function of generate_thesis_charts  *)
(* or generate_better_charts called on a bounded experiment record.        *)
(***************************************************************************)
InitCharts ==
    /\ pc = "chart_call"
    /\ scenarios \in ExperimentRecords
    /\ MttrIdle
    /\ outcome = Idle
    /\ result = Idle
    /\ files = {}
    /\ DiskIdle
    /\ MainIdle
    /\ OrderIdle

\* A chart function runs to its end: it writes its image and prints its
\* status line only when nothing before plt.savefig raised.
ChartCall(fname, r, path) ==
    /\ pc = "chart_call"
    /\ pc' = fname
    /\ outcome' = IF r.ok THEN "ok" ELSE r.exc
    /\ result' = IF r.ok THEN r.val ELSE Idle
    /\ files' = IF r.ok THEN files \cup {path} ELSE files
    /\ log' = IF r.ok THEN Append(log, path) ELSE log
    /\ UNCHANGED <<orderVars, mttrVars, scenarios, diskVars, calls, passed>>

ThesisComparisonBarChart ==
    ChartCall("thesis.create_comparison_bar_chart",
              thesis_create_comparison_bar_chart(scenarios),
              "charts/comparison_bar_chart_real.png")

ThesisImprovementChart ==
    ChartCall("thesis.create_improvement_chart",
              thesis_create_improvement_chart(scenarios),
              "charts/improvement_chart_real.png")

ThesisSummaryTable ==
    ChartCall("thesis.create_summary_table",
              thesis_create_summary_table(scenarios),
              "charts/summary_table_real.png")

BetterCombinedMetricsChart ==
    ChartCall("better.create_combined_metrics_chart",
              better_create_combined_metrics_chart(scenarios),
              "charts/comprehensive_comparison.png")

NextCharts ==
    \/ ThesisComparisonBarChart
    \/ ThesisImprovementChart
    \/ ThesisSummaryTable
    \/ BetterCombinedMetricsChart

SpecCharts == InitCharts /\ [][NextCharts]_vars

(***************************************************************************)
(* Error counts of a record, stated from the entries alone.                *)
(***************************************************************************)
HasErrors(entry, variant) == "failedRequests" \in DOMAIN entry.value[variant]

ErrorsOf(entry, variant) ==
    IF HasErrors(entry, variant)
    THEN entry.value[variant]["failedRequests"] ELSE 0

AllErrorsPresent(sc) ==
    \A i \in 1..Len(sc) : \A k \in 1..3 : HasErrors(sc[i], Variants[k])

\* Sum of a variant's failedRequests, an absent field counting as 0.
RECURSIVE ErrorsUpTo(_, _, _)
ErrorsUpTo(sc, variant, n) ==
    IF n = 0 THEN 0
    ELSE ErrorsOf(sc[n], variant) + ErrorsUpTo(sc, variant, n - 1)

TotalErrors(sc, variant) == ErrorsUpTo(sc, variant, Len(sc))

IsZero(q) == RatEq(q, IntVal(0))

\* C1: every percentage improvement of generate_thesis_charts is 0, with no
\* error raised, when its 'before' error count is 0: the three figures of
\* create_improvement_chart, and the per-scenario rows and the TOTAL row of
\* create_summary_table.
C1_ZeroBeforeYieldsZero ==
    AllErrorsPresent(scenarios) =>
        /\ (pc = "thesis.create_improvement_chart"
              /\ TotalErrors(scenarios, "baseline") = 0) =>
                 /\ outcome = "ok"
                 /\ IsZero(result.sh_improvement)
                 /\ IsZero(result.ml_improvement)
        /\ (pc = "thesis.create_improvement_chart"
              /\ TotalErrors(scenarios, "selfHealing") = 0
              /\ TotalErrors(scenarios, "baseline") > 0) =>
                 /\ outcome = "ok"
                 /\ IsZero(result.ml_vs_sh_improvement)
        /\ (pc = "thesis.create_summary_table"
              /\ TotalErrors(scenarios, "baseline") > 0) =>
                 /\ outcome = "ok"
                 /\ \A i \in 1..Len(scenarios) :
                       ErrorsOf(scenarios[i], "baseline") = 0 =>
                           /\ IsZero(result.rows[i].sh_imp)
                           /\ IsZero(result.rows[i].ml_imp)
        /\ (pc = "thesis.create_summary_table"
              /\ TotalErrors(scenarios, "baseline") = 0) =>
                 /\ outcome = "ok"
                 /\ IsZero(result.total.sh_imp)
                 /\ IsZero(result.total.ml_imp)

IsHundred(q) == RatEq(q, IntVal(100))

\* C15: a percentage improvement of generate_thesis_charts is exactly 100
\* whenever its 'after' error count is 0 and its 'before' error count is
\* greater than 0: the three figures of create_improvement_chart, and the
\* per-scenario rows and the TOTAL row of create_summary_table.
C15_ZeroAfterYieldsHundred ==
    AllErrorsPresent(scenarios) =>
        LET total_b == TotalErrors(scenarios, "baseline")
            total_sh == TotalErrors(scenarios, "selfHealing")
            total_ml == TotalErrors(scenarios, "selfHealingML")
        IN  /\ (pc = "thesis.create_improvement_chart"
                  /\ total_b > 0 /\ total_sh = 0) =>
                     outcome = "ok" /\ IsHundred(result.sh_improvement)
            /\ (pc = "thesis.create_improvement_chart"
                  /\ total_b > 0 /\ total_ml = 0) =>
                     outcome = "ok" /\ IsHundred(result.ml_improvement)
            /\ (pc = "thesis.create_improvement_chart"
                  /\ total_sh > 0 /\ total_ml = 0) =>
                     outcome = "ok" /\ IsHundred(result.ml_vs_sh_improvement)
            /\ pc = "thesis.create_summary_table" =>
                  \A i \in 1..Len(scenarios) :
                     LET b_err == ErrorsOf(scenarios[i], "baseline")
                         sh_err == ErrorsOf(scenarios[i], "selfHealing")
                         ml_err == ErrorsOf(scenarios[i], "selfHealingML")
                     IN  /\ (b_err > 0 /\ sh_err = 0) =>
                               /\ outcome = "ok"
                               /\ IsHundred(result.rows[i].sh_imp)
                         /\ (b_err > 0 /\ ml_err = 0) =>
                               /\ outcome = "ok"
                               /\ IsHundred(result.rows[i].ml_imp)
            /\ (pc = "thesis.create_summary_table"
                  /\ total_b > 0 /\ total_sh = 0) =>
                     outcome = "ok" /\ IsHundred(result.total.sh_imp)
            /\ (pc = "thesis.create_summary_table"
                  /\ total_b > 0 /\ total_ml = 0) =>
                     outcome = "ok" /\ IsHundred(result.total.ml_imp)

\* C25: in create_summary_table each per-scenario row's winner is 'Tie'
\* exactly when ML errors equal Self-Healing errors, 'ML' exactly when ML
\* errors are strictly fewer, and 'Self-Healing' exactly when ML errors are
\* strictly more: of the row the loop builds, and of the row of the table
\* when the function ends normally.
C25_RowWinner ==
    (pc = "thesis.create_summary_table" /\ AllErrorsPresent(scenarios)) =>
        \A i \in 1..Len(scenarios) :
            LET sh_err == ErrorsOf(scenarios[i], "selfHealing")
                ml_err == ErrorsOf(scenarios[i], "selfHealingML")
                built == thesis_table_row(scenarios[i])
            IN  /\ built.ok
                /\ (built.val.winner = "Tie") = (ml_err = sh_err)
                /\ (built.val.winner = "ML") = (ml_err < sh_err)
                /\ (built.val.winner = "Self-Healing") = (ml_err > sh_err)
                /\ outcome = "ok" => result.rows[i] = built.val

\* A table with a row of each kind.
C25_Witness ==
    /\ pc = "thesis.create_summary_table"
    /\ outcome = "ok"
    /\ \E i, j, k \in 1..Len(scenarios) :
          /\ result.rows[i].winner = "Tie"
          /\ result.rows[j].winner = "ML"
          /\ result.rows[k].winner = "Self-Healing"
          /\ result.rows[i].ml_err > 0
    /\ result.total.ml_err = result.total.sh_err

\* C26: in create_summary_table the TOTAL row's winner is 'ML' whenever
\* total ML errors <= total Self-Healing errors, equality included, so the
\* TOTAL row is never 'Tie', even when every per-scenario row is 'Tie'.
C26_TotalWinnerNeverTie ==
    (pc = "thesis.create_summary_table" /\ AllErrorsPresent(scenarios)) =>
        /\ TotalErrors(scenarios, "selfHealingML")
              <= TotalErrors(scenarios, "selfHealing") =>
                 outcome = "ok" /\ result.total.winner = "ML"
        /\ outcome = "ok" => result.total.winner # "Tie"

\* The record with its scenarios iterated in the opposite order.
Reversed(sc) == [i \in 1..Len(sc) |-> sc[Len(sc) + 1 - i]]

\* C16: the sum-reduce of failedRequests for one variant equals the sum of
\* that variant's per-scenario failedRequests over all scenarios of the
\* record (5 and 3 give 8), and is the same when the scenarios are iterated
\* in the opposite order (create_combined_metrics_chart of
\* generate_better_charts, create_improvement_chart of
\* generate_thesis_charts).
C16_SumReduceIsTheSum ==
    AllErrorsPresent(scenarios) =>
        LET totals == <<TotalErrors(scenarios, "baseline"),
                        TotalErrors(scenarios, "selfHealing"),
                        TotalErrors(scenarios, "selfHealingML")>>
        IN  /\ pc = "better.create_combined_metrics_chart" =>
                  /\ outcome = "ok"
                  /\ result.errors = totals
                  /\ better_create_combined_metrics_chart(Reversed(scenarios))
                        .val.errors = result.errors
            /\ (pc = "thesis.create_improvement_chart" /\ outcome = "ok") =>
                  /\ <<result.baseline_errors, result.sh_errors,
                       result.ml_errors>> = totals
                  /\ \A k \in 1..3 :
                        sum_field(Reversed(scenarios), Variants[k],
                                  "failedRequests").val = totals[k]

C16_Witness ==
    /\ pc = "better.create_combined_metrics_chart"
    /\ Len(scenarios) = 2
    /\ scenarios[1].value["baseline"]["failedRequests"] = 5
    /\ scenarios[2].value["baseline"]["failedRequests"] = 3
    /\ result.errors[1] = 8

MeanFields == <<"successRate", "hitRate", "avgResponseTime">>

\* The per-scenario values of a field for one variant.
ValuesOf(sc, variant, field) ==
    {sc[i].value[variant][field] : i \in 1..Len(sc)}

\* The means a chart function computed, as [variant, field, mean].
MeansComputed ==
    IF pc = "thesis.create_comparison_bar_chart"
    THEN {[variant |-> Variants[k], field |-> MeanFields[f],
           mean |-> <<result.baseline_metrics, result.sh_metrics,
                      result.ml_metrics>>[k][MeanFields[f]]] :
             k \in 1..3, f \in 1..3}
    ELSE IF pc = "better.create_combined_metrics_chart"
    THEN {[variant |-> Variants[k], field |-> MeanFields[f],
           mean |-> <<result.success_rates, result.hit_rates,
                      result.latencies>>[f][k]] :
             k \in 1..3, f \in 1..3}
    ELSE {}

\* min(S) <= x <= max(S)
WithinRange(x, S) ==
    /\ \E y \in S : fl_le(y, x)
    /\ \E y \in S : fl_le(x, y)

\* min(S) * (1 - u)^n <= x <= max(S) * (1 + u)^n, for the unit roundoff
\* u = 2^-Precision
WithinRounding(x, S, n) ==
    /\ \E y \in S : fl_scaled_le(y, IntPow(Pow2(Precision) - 1, n),
                                 x, IntPow(Pow2(Precision), n))
    /\ \E y \in S : fl_scaled_le(x, IntPow(Pow2(Precision), n),
                                 y, IntPow(Pow2(Precision) + 1, n))

\* C17 (as claimed): for a non-empty set of scenarios, the mean-reduce of
\* successRate, hitRate or avgResponseTime for one variant is not less than
\* the minimum and not greater than the maximum of the per-scenario values.
C17_MeanWithinMinMax ==
    (outcome = "ok" /\ scenarios # <<>>) =>
        \A c \in MeansComputed :
            WithinRange(c.mean, ValuesOf(scenarios, c.variant, c.field))

\* C17 (amended): for n >= 1 scenarios with non-negative values, the
\* mean-reduce of successRate, hitRate or avgResponseTime for one variant
\* lies between the minimum and the maximum of the per-scenario values up to
\* the rounding of the n floating-point operations that compute it: it is
\* not less than min * (1 - u)^n and not greater than max * (1 + u)^n, u
\* being the unit roundoff of the format.
C17_MeanWithinRoundingOfMinMax ==
    (outcome = "ok" /\ scenarios # <<>>) =>
        \A c \in MeansComputed :
            WithinRounding(c.mean, ValuesOf(scenarios, c.variant, c.field),
                           Len(scenarios))

\* Three scenarios whose mean falls outside their range.
C17_Witness ==
    /\ pc = "thesis.create_comparison_bar_chart"
    /\ outcome = "ok"
    /\ Len(scenarios) = 3
    /\ ~WithinRange(result.baseline_metrics.successRate,
                    ValuesOf(scenarios, "baseline", "successRate"))
    /\ WithinRounding(result.baseline_metrics.successRate,
                      ValuesOf(scenarios, "baseline", "successRate"), 3)

\* C8: the sum of failedRequests across scenarios for one variant has no
\* error path: a scenario whose variant record lacks the field counts as
\* zero and the sum is still returned (create_comparison_bar_chart of
\* generate_thesis_charts, create_combined_metrics_chart of
\* generate_better_charts).
C8_SumTreatsAbsentAsZero ==
    /\ pc = "thesis.create_comparison_bar_chart" =>
          /\ outcome = "ok"
          /\ result.baseline_metrics.failedRequests
                = TotalErrors(scenarios, "baseline")
          /\ result.sh_metrics.failedRequests
                = TotalErrors(scenarios, "selfHealing")
          /\ result.ml_metrics.failedRequests
                = TotalErrors(scenarios, "selfHealingML")
    /\ pc = "better.create_combined_metrics_chart" =>
          /\ outcome = "ok"
          /\ result.errors = <<TotalErrors(scenarios, "baseline"),
                               TotalErrors(scenarios, "selfHealing"),
                               TotalErrors(scenarios, "selfHealingML")>>

(***************************************************************************)
(* Files of experiment_results/ and load_experiment_data                   *)
(* (visualize_metrics.py).  A dict read from JSON is a function on its     *)
(* keys.                                                                   *)
(***************************************************************************)
MaxMtime == 2

NoFile == [exists |-> FALSE]
File(content, mtime) == [exists |-> TRUE, content |-> content, mtime |-> mtime]

FixedFiles == {"experiments.json", "cache_statistics.json", "ml_training_data.json"}

ErrorMarker == "{\"error\""

\* File contents the model draws from.
Contents ==
    {"", "{}", "{\"runs\": \"1\"}", "{\"error\": \"x\"}", ErrorMarker, "not json"}

EmptyDict == <<>>

\* json.loads on the contents above.
json_loads(content) ==
    CASE content = "{}" -> Returned(EmptyDict)
      [] content = "{\"runs\": \"1\"}" -> Returned([runs |-> "1"])
      [] content = "{\"error\": \"x\"}" -> Returned([error |-> "x"])
      [] OTHER -> Raised("JSONDecodeError")

\* str.startswith
StartsWith(str, prefix) ==
    Len(str) >= Len(prefix) /\ SubSeq(str, 1, Len(prefix)) = prefix

\* str.endswith
EndsWith(str, suffix) ==
    /\ Len(str) >= Len(suffix)
    /\ SubSeq(str, Len(str) - Len(suffix) + 1, Len(str)) = suffix

\* experiments.json and ml_training_data.json: read, then parse unless the
\* content is empty or starts with the error marker.
load_guarded(file) ==
    IF ~file.exists THEN Returned(EmptyDict)
    ELSE IF file.content # "" /\ ~StartsWith(file.content, ErrorMarker)
         THEN json_loads(file.content)
         ELSE Returned(EmptyDict)

\* cache_statistics.json: json.load(f) on whatever the file holds.
load_plain(file) ==
    IF ~file.exists THEN Returned(EmptyDict) ELSE json_loads(file.content)

load_experiment_data(disk) ==
    LET parts == <<load_guarded(disk["experiments.json"]),
                   load_plain(disk["cache_statistics.json"]),
                   load_guarded(disk["ml_training_data.json"])>>
    IN  IF AllOk(parts)
        THEN Returned([experiments |-> parts[1].val,
                       cache_stats |-> parts[2].val,
                       ml_data |-> parts[3].val])
        ELSE FirstRaised(parts)

(***************************************************************************)
(* Specification SpecLoad: load_experiment_data on a bounded directory.    *)
(***************************************************************************)
FixedFileStates == {NoFile} \cup {File(c, 1) : c \in Contents}

InitLoad ==
    /\ pc = "load_call"
    /\ fs \in [FixedFiles -> FixedFileStates]
    /\ loaded = Idle
    /\ latest_experiment = Idle
    /\ MttrIdle
    /\ MainIdle
    /\ OrderIdle
    /\ scenarios = Idle
    /\ outcome = Idle
    /\ result = Idle
    /\ files = {}

LoadExperimentData ==
    /\ pc = "load_call"
    /\ LET r == load_experiment_data(fs)
       IN  /\ outcome' = IF r.ok THEN "ok" ELSE r.exc
           /\ loaded' = IF r.ok THEN r.val ELSE Idle
    /\ pc' = "load_done"
    /\ UNCHANGED <<orderVars, mttrVars, mainVars, scenarios, result, files, fs,
                   latest_experiment>>

NextLoad == LoadExperimentData

SpecLoad == InitLoad /\ [][NextLoad]_vars

\* A file the interface says is skipped: absent, or starting with the marker.
Skipped(file) == ~file.exists \/ StartsWith(file.content, ErrorMarker)

\* C10: for each of experiments.json, cache_statistics.json and
\* ml_training_data.json, a file that does not exist yields an empty
\* mapping, and a file whose content begins with '{"error"' is skipped and
\* also yields an empty mapping.
C10_AbsentOrErrorFileIsEmpty ==
    pc = "load_done" =>
        /\ (\A f \in FixedFiles : Skipped(fs[f])) => outcome = "ok"
        /\ outcome = "ok" =>
              /\ Skipped(fs["experiments.json"])
                    => loaded.experiments = EmptyDict
              /\ Skipped(fs["cache_statistics.json"])
                    => loaded.cache_stats = EmptyDict
              /\ Skipped(fs["ml_training_data.json"])
                    => loaded.ml_data = EmptyDict

(***************************************************************************)
(* main of visualize_metrics.py.  Whether a chart call raises, and which   *)
(* of its data-dependent images it writes, are inputs of the call.         *)
(***************************************************************************)
StaticCharts ==
    <<[name |-> "create_comparison_charts",
       path |-> "charts/comparison_bar_chart.png"],
      [name |-> "create_improvement_chart",
       path |-> "charts/improvement_chart.png"],
      [name |-> "create_failure_recovery_timeline",
       path |-> "charts/recovery_timeline.png"],
      [name |-> "create_ml_prediction_accuracy",
       path |-> "charts/ml_prediction_accuracy.png"],
      [name |-> "create_recovery_strategy_effectiveness",
       path |-> "charts/recovery_strategies.png"],
      [name |-> "create_availability_comparison",
       path |-> "charts/availability_24h.png"],
      [name |-> "create_summary_table",
       path |-> "charts/comparison_table.png"]>>

\* Mutant: the list of create_latency_area_under_curve is used.
stress_scenarios_as_key_scenarios ==
    <<"cascading_failure", "gradual_degradation", "high_failure",
      "recovery_stress_test">>

stress_scenarios ==
    <<"cascading_failure", "gradual_degradation", "recovery_stress_test",
      "cache_corruption">>

\* Mutant: the images of all scenarios go to one path.
RecoveryCurvePathShared(scenario_name) == "charts/recovery_curve.png"

\* filename = f'charts/recovery_curve_{scenario_name}.png'
RecoveryCurvePath(scenario_name) ==
    "charts/recovery_curve_" \o scenario_name \o ".png"

\* The calls of the try block, each with the sets of images a call that
\* returns may have written.
ExperimentCharts ==
    <<[name |-> "create_ml_learning_curves",
       writes |-> {{"charts/ml_comprehensive_analysis.png"}}],
      [name |-> "create_scenario_comparison",
       writes |-> {{"charts/scenario_comparison.png"}}],
      [name |-> "create_recovery_curves",
       writes |-> SUBSET {RecoveryCurvePath(stress_scenarios[k]) : k \in 1..4}],
      [name |-> "create_mttr_comparison",
       writes |-> {{}, {"charts/mttr_comparison.png"}}],
      [name |-> "create_latency_area_under_curve",
       writes |-> {{"charts/latency_auc_comparison.png"}}]>>

\* Images a call may have written by the time it raises.
WritesBeforeRaise(chart) ==
    IF chart.name = "create_recovery_curves" THEN chart.writes ELSE {{}}

\* results_dir.glob('experiment_*.json')
glob_experiments(disk) ==
    {f \in DOMAIN disk :
        /\ disk[f].exists
        /\ StartsWith(f, "experiment_")
        /\ EndsWith(f, ".json")}

\* Mutant: the file modified least recently is taken.
oldest_candidates(disk) ==
    {f \in glob_experiments(disk) :
        \A g \in glob_experiments(disk) : disk[f].mtime <= disk[g].mtime}

\* max(experiment_files, key=lambda p: p.stat().st_mtime): the first file of
\* the list with the largest mtime; the list's order is the directory's.
latest_candidates(disk) ==
    {f \in glob_experiments(disk) :
        \A g \in glob_experiments(disk) : disk[g].mtime <= disk[f].mtime}

Warning(name) == [line |-> "Warning: Could not create ML analysis charts",
                  call |-> name]
FinalStatus == [line |-> "All visualizations generated successfully!",
                call |-> "main"]

\* Number of static charts called so far, and of calls made in the try block.
StaticDone == Len(calls)
TryDone == Len(calls) - Len(StaticCharts)

\* Mutant: each call of the try block has its own handler.
AfterCaughtResuming(k) ==
    IF k < Len(ExperimentCharts) THEN "main_try" ELSE "main_final"

\* Where main goes on after the except clause ran for the k-th call.
AfterCaught(k) == "main_final"

\* Mutant: the directory is not created.
mkdir_skipped(entries, dir) == entries

\* Path(dir).mkdir(exist_ok=True), when it returns: the directory is there.
mkdir_exist_ok(entries, dir) == entries \cup {dir}

\* Path('charts').mkdir(exist_ok=True); it raises FileExistsError when
\* 'charts' is a regular file (another OSError when the directory cannot be
\* made), and nothing in main catches it.
MainMkdir ==
    /\ pc = "main_mkdir"
    /\ \E blocked \in BOOLEAN :
          IF blocked
          THEN /\ outcome' = "OSError"
               /\ files' = files
               /\ pc' = "main_raised"
          ELSE /\ outcome' = outcome
               /\ files' = mkdir_exist_ok(files, "charts/")
               /\ pc' = "main_load"
    /\ UNCHANGED <<orderVars, mttrVars, diskVars, mainVars, scenarios, result>>

MainLoad ==
    /\ pc = "main_load"
    /\ LET r == load_experiment_data(fs)
       IN  /\ loaded' = IF r.ok THEN r.val ELSE Idle
           /\ outcome' = IF r.ok THEN outcome ELSE r.exc
           /\ pc' = IF r.ok THEN "main_static" ELSE "main_raised"
    /\ UNCHANGED <<orderVars, mttrVars, mainVars, fs, latest_experiment, scenarios,
                   result, files>>

\* Mutant: the seven calls before the try block are also under its handler.
AfterUncaughtHandled(k) == "main_final"

\* Where main goes on after the k-th call before the try block raised: no
\* handler encloses these calls, so the exception leaves main.
AfterUncaught(k) == "main_raised"

\* One of the seven calls before the try block; an exception leaves main.
MainStaticChart ==
    /\ pc = "main_static"
    /\ LET chart == StaticCharts[StaticDone + 1]
       IN  /\ calls' = Append(calls, chart.name)
           /\ \E raises \in BOOLEAN :
                 IF raises
                 THEN /\ outcome' = "Exception"
                      /\ pc' = AfterUncaught(StaticDone + 1)
                      /\ files' = files
                 ELSE /\ outcome' = outcome
                      /\ files' = files \cup {chart.path}
                      /\ pc' = IF StaticDone + 1 = Len(StaticCharts)
                               THEN "main_glob" ELSE "main_static"
    /\ UNCHANGED <<orderVars, mttrVars, diskVars, log, passed, scenarios, result>>

MainFindLatest ==
    /\ pc = "main_glob"
    /\ IF glob_experiments(fs) # {}
       THEN /\ latest_experiment' \in latest_candidates(fs)
            /\ pc' = "main_try"
       ELSE /\ latest_experiment' = latest_experiment
            /\ pc' = "main_final"
    /\ UNCHANGED <<orderVars, mttrVars, mainVars, fs, loaded, scenarios, outcome,
                   result, files>>

\* One of the five calls of the try block; an Exception is caught and logged.
MainExperimentChart ==
    /\ pc = "main_try"
    /\ LET k == TryDone + 1
           chart == ExperimentCharts[k]
       IN  /\ calls' = Append(calls, chart.name)
           /\ passed' = Append(passed, latest_experiment)
           /\ \E raises \in BOOLEAN :
                 IF raises
                 THEN /\ \E written \in WritesBeforeRaise(chart) :
                            files' = files \cup written
                      /\ log' = Append(log, Warning(chart.name))
                      /\ pc' = AfterCaught(k)
                 ELSE /\ \E written \in chart.writes :
                            files' = files \cup written
                      /\ log' = log
                      /\ pc' = IF k = Len(ExperimentCharts)
                               THEN "main_final" ELSE "main_try"
    /\ UNCHANGED <<orderVars, mttrVars, diskVars, scenarios, outcome, result>>

MainFinal ==
    /\ pc = "main_final"
    /\ log' = Append(log, FinalStatus)
    /\ pc' = "main_done"
    /\ UNCHANGED <<orderVars, mttrVars, diskVars, calls, passed, scenarios, outcome,
                   result, files>>

(***************************************************************************)
(* Specification SpecMain: one run of visualize_metrics.main.              *)
(***************************************************************************)
ExperimentFileNames == {"experiment_1.json", "experiment_2.json"}

ExperimentFileStates == {NoFile} \cup {File("{}", t) : t \in 1..MaxMtime}

\* The three fixed files: all absent, all valid, or one of them unreadable.
FixedFileSamples ==
    {[f \in FixedFiles |-> NoFile],
     [f \in FixedFiles |-> File("{\"runs\": \"1\"}", 1)],
     [f \in FixedFiles |->
         IF f = "cache_statistics.json" THEN File("", 1) ELSE NoFile],
     [f \in FixedFiles |->
         IF f = "experiments.json" THEN File("{\"error\": \"x\"}", 1)
         ELSE NoFile]}

MainDisks ==
    {[f \in FixedFiles \cup ExperimentFileNames |->
         IF f \in FixedFiles THEN fixed[f] ELSE exps[f]] :
        fixed \in FixedFileSamples,
        exps \in [ExperimentFileNames -> ExperimentFileStates]}

InitMain ==
    /\ pc = "main_mkdir"
    /\ fs \in MainDisks
    /\ loaded = Idle
    /\ latest_experiment = None
    /\ MttrIdle
    /\ MainIdle
    /\ OrderIdle
    /\ scenarios = Idle
    /\ outcome = "ok"
    /\ result = Idle
    /\ files = {}

NextMain ==
    \/ MainMkdir
    \/ MainLoad
    \/ MainStaticChart
    \/ MainFindLatest
    \/ MainExperimentChart
    \/ MainFinal

SpecMain == InitMain /\ [][NextMain]_vars

Range(seq) == {seq[i] : i \in 1..Len(seq)}

ExperimentChartNames ==
    {ExperimentCharts[k].name : k \in 1..Len(ExperimentCharts)}

\* A call of the try block raised and the handler logged it.
FailedCalls == {e.call : e \in {w \in Range(log) : w # FinalStatus}}

\* C2 (as claimed): when one of the five experiment-driven chart calls
\* raises, the exception is caught and logged and every chart call that
\* comes after the failing one is still executed.
C2_RemainingCallsExecuted ==
    (pc = "main_done" /\ FailedCalls # {}) =>
        ExperimentChartNames \subseteq Range(calls)

\* C2 (amended): when one of the five experiment-driven chart calls raises,
\* the exception is caught and logged once, main goes on to its final status
\* output, and no chart call after the failing one is executed: the failing
\* call is the last call main makes.
C2_CaughtAndRestSkipped ==
    FailedCalls # {} =>
        /\ pc \in {"main_final", "main_done"}
        /\ outcome = "ok"
        /\ Len(log) <= 2
        /\ FailedCalls = {calls[Len(calls)]}
        /\ calls[Len(calls)] \in ExperimentChartNames

C2_Witness ==
    /\ pc = "main_done"
    /\ FailedCalls = {"create_scenario_comparison"}
    /\ Len(calls) = Len(StaticCharts) + 2
    /\ log[Len(log)] = FinalStatus
    /\ "charts/recovery_curve_cascading_failure.png" \notin files

\* The images of the seven calls made before the try block.
StaticImagePaths ==
    {"charts/comparison_bar_chart.png", "charts/improvement_chart.png",
     "charts/recovery_timeline.png", "charts/ml_prediction_accuracy.png",
     "charts/recovery_strategies.png", "charts/availability_24h.png",
     "charts/comparison_table.png"}

\* main has got past the seven calls made before the try block.
PastStaticCalls == pc \in {"main_glob", "main_try", "main_final", "main_done"}

\* C27: in visualize_metrics.main the creation of the charts directory
\* precedes every image write on every execution path (no step writes an
\* image unless the directory was made before it), and the seven static
\* charts are written whether or not any experiment_*.json file exists: by
\* the time main looks for the experiment files, and ever after, the seven
\* images are there, and those seven calls are the first seven it made.
C27_DirectoryFirstStaticAlways ==
    /\ [][\A p \in files' \ files : p # "charts/" => "charts/" \in files]_vars
    /\ [](PastStaticCalls =>
            /\ StaticImagePaths \subseteq files
            /\ Len(calls) >= Len(StaticCharts)
            /\ \A k \in 1..Len(StaticCharts) : calls[k] = StaticCharts[k].name)

\* A run that ended with no experiment_*.json on the disk: the directory and
\* the seven static images are all there is.
C27_Witness ==
    /\ pc = "main_done"
    /\ glob_experiments(fs) = {}
    /\ files = {"charts/"} \cup StaticImagePaths
    /\ Len(calls) = Len(StaticCharts)

\* main is one sequential thread: a step that can be taken is taken.
SpecMainLive == InitMain /\ [][NextMain]_vars /\ WF_vars(NextMain)

\* A call made before the try block raised.
StaticCallRaised == outcome = "Exception" /\ calls # <<>>

\* C11: in visualize_metrics.main a failure in any of the five
\* experiment-driven chart calls never leaves main: it is caught and logged,
\* and main then reaches its final status output; a failure in any of the
\* seven static chart calls before them is not caught: it leaves main, which
\* logs nothing and never prints its final status.
C11_OnlyExperimentFailuresCaught ==
    /\ [](FailedCalls # {} =>
            /\ outcome = "ok"
            /\ pc # "main_raised"
            /\ FailedCalls \subseteq ExperimentChartNames)
    /\ (FailedCalls # {}) ~>
            (pc = "main_done" /\ log[Len(log)] = FinalStatus)
    /\ [](StaticCallRaised =>
            /\ pc = "main_raised"
            /\ log = <<>>
            /\ calls[Len(calls)] \notin ExperimentChartNames)
    /\ [](StaticCallRaised => [](pc = "main_raised" /\ log = <<>>))

C11_Witness ==
    /\ pc = "main_done"
    /\ FailedCalls = {"create_latency_area_under_curve"}
    /\ Len(calls) = Len(StaticCharts) + Len(ExperimentCharts)
    /\ log = <<Warning("create_latency_area_under_curve"), FinalStatus>>

(***************************************************************************)
(* main of generate_thesis_charts.py and of generate_better_charts.py.     *)
(* Neither has a handler: an exception of a chart call leaves main.        *)
(***************************************************************************)
Scripts == {"thesis", "better"}

ScriptCharts ==
    [thesis |->
        <<[name |-> "thesis.create_comparison_bar_chart",
           path |-> "charts/comparison_bar_chart_real.png"],
          [name |-> "thesis.create_improvement_chart",
           path |-> "charts/improvement_chart_real.png"],
          [name |-> "thesis.create_summary_table",
           path |-> "charts/summary_table_real.png"]>>,
     better |->
        <<[name |-> "better.create_error_reduction_chart",
           path |-> "charts/error_reduction_by_scenario.png"],
          [name |-> "better.create_success_rate_zoomed",
           path |-> "charts/success_rate_zoomed.png"],
          [name |-> "better.create_combined_metrics_chart",
           path |-> "charts/comprehensive_comparison.png"]>>]

\* Positions of control in a script's main.
ScriptPc ==
    [thesis |-> [glob |-> "thesis_glob", charts |-> "thesis_charts",
                 final |-> "thesis_final", done |-> "thesis_done",
                 raised |-> "thesis_raised"],
     better |-> [glob |-> "better_glob", charts |-> "better_charts",
                 final |-> "better_final", done |-> "better_done",
                 raised |-> "better_raised"]]

NoFilesFound == [line |-> "No experiment files found!", call |-> "main"]

ScriptFinalStatus ==
    [thesis |-> [line |-> "Real data charts generated successfully!",
                 call |-> "main"],
     better |-> [line |-> "Improved charts generated!", call |-> "main"]]

\* if not experiment_files: print(...); return
\* latest_experiment = max(experiment_files, key=lambda p: p.stat().st_mtime)
ScriptFindLatest ==
    \E script \in Scripts :
        /\ pc = ScriptPc[script].glob
        /\ IF glob_experiments(fs) = {}
           THEN /\ log' = Append(log, NoFilesFound)
                /\ latest_experiment' = latest_experiment
                /\ pc' = ScriptPc[script].done
           ELSE /\ log' = log
                /\ latest_experiment' \in latest_candidates(fs)
                /\ pc' = ScriptPc[script].charts
        /\ UNCHANGED <<orderVars, mttrVars, fs, loaded, calls, passed, scenarios,
                       outcome, result, files>>

\* One of the three chart calls of a script's main.
ScriptChart ==
    \E script \in Scripts :
        /\ pc = ScriptPc[script].charts
        /\ LET k == Len(calls) + 1
               chart == ScriptCharts[script][k]
           IN  /\ calls' = Append(calls, chart.name)
               /\ passed' = Append(passed, latest_experiment)
               /\ \E raises \in BOOLEAN :
                     IF raises
                     THEN /\ outcome' = "Exception"
                          /\ files' = files
                          /\ pc' = ScriptPc[script].raised
                     ELSE /\ outcome' = outcome
                          /\ files' = files \cup {chart.path}
                          /\ pc' = IF k = Len(ScriptCharts[script])
                                   THEN ScriptPc[script].final
                                   ELSE ScriptPc[script].charts
        /\ UNCHANGED <<orderVars, mttrVars, diskVars, log, scenarios, result>>

ScriptFinal ==
    \E script \in Scripts :
        /\ pc = ScriptPc[script].final
        /\ log' = Append(log, ScriptFinalStatus[script])
        /\ pc' = ScriptPc[script].done
        /\ UNCHANGED <<orderVars, mttrVars, diskVars, calls, passed, scenarios, outcome,
                       result, files>>

(***************************************************************************)
(* Specification SpecScripts: one run of the main of any of the three      *)
(* scripts, on the same contents of experiment_results/.                   *)
(***************************************************************************)
InitScripts ==
    /\ pc \in {"main_mkdir"} \cup {ScriptPc[script].glob : script \in Scripts}
    /\ fs \in MainDisks
    /\ loaded = Idle
    /\ latest_experiment = None
    /\ MttrIdle
    /\ MainIdle
    /\ OrderIdle
    /\ scenarios = Idle
    /\ outcome = "ok"
    /\ result = Idle
    /\ files = {}

NextScripts ==
    \/ MainMkdir
    \/ MainLoad
    \/ MainStaticChart
    \/ MainFindLatest
    \/ MainExperimentChart
    \/ MainFinal
    \/ ScriptFindLatest
    \/ ScriptChart
    \/ ScriptFinal

SpecScripts == InitScripts /\ [][NextScripts]_vars

\* main returned.
MainReturned ==
    pc \in {"main_done"} \cup {ScriptPc[script].done : script \in Scripts}

\* The chart calls that take the experiment file, and the images they write.
ExperimentDrivenNames ==
    ExperimentChartNames
        \cup {ScriptCharts[script][k].name : script \in Scripts, k \in 1..3}

ExperimentDrivenPaths ==
    UNION (UNION {ExperimentCharts[k].writes : k \in 1..Len(ExperimentCharts)})
        \cup {ScriptCharts[script][k].path : script \in Scripts, k \in 1..3}

LogLines == {log[i].line : i \in 1..Len(log)}

WarningLines ==
    {NoFilesFound.line, "Warning: Could not create ML analysis charts"}

\* C12: when no file matches experiment_*.json, the main of each script
\* makes no experiment-based chart, prints a console warning, and returns
\* without raising.
C12_NoExperimentFileWarns ==
    (glob_experiments(fs) = {}) =>
        /\ Range(calls) \cap ExperimentDrivenNames = {}
        /\ files \cap ExperimentDrivenPaths = {}
        /\ pc \notin {ScriptPc[script].raised : script \in Scripts}
        /\ MainReturned => LogLines \cap WarningLines # {}

\* The name matches experiment_*.json.
MatchesPattern(f) == StartsWith(f, "experiment_") /\ EndsWith(f, ".json")

\* The files of experiment_results/ that match the pattern.
Matching == {f \in DOMAIN fs : fs[f].exists /\ MatchesPattern(f)}

\* C19: the experiment file a script's main passes to its chart functions
\* is a file matching experiment_*.json whose modification time is greater
\* than or equal to that of every other matching file, and every
\* experiment-driven chart call of the run is passed that same file.
C19_LatestFilePassedToEveryChart ==
    /\ Len(passed)
          = Cardinality({k \in 1..Len(calls) :
                            calls[k] \in ExperimentDrivenNames})
    /\ \A i \in 1..Len(passed) :
          /\ passed[i] \in Matching
          /\ \A g \in Matching : fs[g].mtime <= fs[passed[i]].mtime
          /\ passed[i] = passed[1]
          /\ passed[i] = latest_experiment

C19_Witness ==
    /\ pc = "better_done"
    /\ Len(passed) = 3
    /\ Matching = {"experiment_1.json", "experiment_2.json"}
    /\ fs["experiment_1.json"].mtime > fs["experiment_2.json"].mtime
    /\ passed = <<"experiment_1.json", "experiment_1.json",
                  "experiment_1.json">>

(***************************************************************************)
(* The chart calls of a main made in another order.  What an image shows   *)
(* is a function of the chart function, of the experiment file it was      *)
(* given, and of the values it drew from numpy's global generator:         *)
(* np.random.normal takes the next values of the one stream all calls      *)
(* share.  No script seeds the generator; a run starts from some state of  *)
(* it, and two orders are compared from the same state.                    *)
(***************************************************************************)
MaxSeed == 2

\* np.random.normal(0, 2, 100) in create_ml_prediction_accuracy;
\* np.random.normal(0, 0.3, 24) and np.random.normal(0, 0.1, 24) in
\* create_availability_comparison.
AccuracyDraws == 100
AvailabilityDraws == 24 + 24

DrawsOf(name) ==
    CASE name = "create_ml_prediction_accuracy" -> AccuracyDraws
      [] name = "create_availability_comparison" -> AvailabilityDraws
      [] OTHER -> 0

\* The chart calls of each main, in the order of the source, with the images
\* a call writes when every scenario of the file can be charted.
MainCalls ==
    [visualize |->
        [k \in 1..(Len(StaticCharts) + Len(ExperimentCharts)) |->
            IF k <= Len(StaticCharts)
            THEN [name |-> StaticCharts[k].name,
                  paths |-> {StaticCharts[k].path}]
            ELSE [name |-> ExperimentCharts[k - Len(StaticCharts)].name,
                  paths |->
                      UNION ExperimentCharts[k - Len(StaticCharts)].writes]],
     thesis |->
        [k \in 1..Len(ScriptCharts.thesis) |->
            [name |-> ScriptCharts.thesis[k].name,
             paths |-> {ScriptCharts.thesis[k].path}]],
     better |->
        [k \in 1..Len(ScriptCharts.better) |->
            [name |-> ScriptCharts.better[k].name,
             paths |-> {ScriptCharts.better[k].path}]]]

\* One chart call: it draws its values from the generator, reads the file it
\* was given, and writes its images.
CallEffect(call, st, file) ==
    LET n == DrawsOf(call.name)
        shown == [chart |-> call.name,
                  file  |-> IF call.name \in ExperimentDrivenNames
                            THEN file ELSE "",
                  seed  |-> IF n = 0 THEN 0 ELSE st.rng.seed,
                  first |-> IF n = 0 THEN 0 ELSE st.rng.drawn,
                  count |-> n]
    IN  [rng    |-> [seed |-> st.rng.seed, drawn |-> st.rng.drawn + n],
         images |-> [p \in DOMAIN st.images \cup call.paths |->
                        IF p \in call.paths THEN shown ELSE st.images[p]]]

\* The first k calls of an order, from a fresh generator.
RECURSIVE RunOrder(_, _, _, _)
RunOrder(o, k, seed, file) ==
    IF k = 0
    THEN [rng |-> [seed |-> seed, drawn |-> 0], images |-> <<>>]
    ELSE CallEffect(o[k], RunOrder(o, k - 1, seed, file), file)

\* The orders tried: the order of the source, and every order that
\* exchanges two of its calls.
Swap(o, i, j) ==
    [k \in 1..Len(o) |-> IF k = i THEN o[j] ELSE IF k = j THEN o[i] ELSE o[k]]

Orders(o) == {Swap(o, i, j) : i, j \in 1..Len(o)}

(***************************************************************************)
(* Specification SpecOrder: the chart calls of one main, made in one of    *)
(* the orders, none of them raising.                                       *)
(***************************************************************************)
InitOrder ==
    /\ pc = "order_calls"
    /\ order \in UNION {Orders(MainCalls[script]) : script \in DOMAIN MainCalls}
    /\ rng \in [seed : 1..MaxSeed, drawn : {0}]
    /\ images = <<>>
    /\ latest_experiment \in ExperimentFileNames
    /\ fs = Idle
    /\ loaded = Idle
    /\ MttrIdle
    /\ MainIdle
    /\ scenarios = Idle
    /\ outcome = "ok"
    /\ result = Idle
    /\ files = {}

OrderedCall ==
    /\ pc = "order_calls"
    /\ LET k == Len(calls) + 1
           after == CallEffect(order[k], [rng |-> rng, images |-> images],
                               latest_experiment)
       IN  /\ calls' = Append(calls, order[k].name)
           /\ rng' = after.rng
           /\ images' = after.images
           /\ files' = files \cup order[k].paths
           /\ pc' = IF k = Len(order) THEN "order_done" ELSE "order_calls"
    /\ UNCHANGED <<mttrVars, diskVars, log, passed, order, scenarios, outcome,
                   result>>

NextOrder == OrderedCall

SpecOrder == InitOrder /\ [][NextOrder]_vars

\* The order of the source for the main whose calls these are.
OriginalOrder ==
    CHOOSE o \in {MainCalls[script] : script \in DOMAIN MainCalls} :
        Range(o) = Range(order)

\* C13: the order of the chart calls of a main is irrelevant: after the
\* calls were made in any order, the set of images written and what each
\* image shows are the same as after the calls made in the order of the
\* source.
C13_OrderIrrelevant ==
    pc = "order_done" =>
        LET original == RunOrder(OriginalOrder, Len(OriginalOrder), rng.seed,
                                 latest_experiment)
        IN  /\ files = DOMAIN original.images
            /\ images = original.images

(***************************************************************************)
(* Experiment-driven charts of visualize_metrics.py.                       *)
(***************************************************************************)
\* dict.get(key, default)
dict_get(d, key, default) == IF key \in DOMAIN d THEN d[key] ELSE default

\* A dict with one more key.
WithField(d, key, v) ==
    [k \in DOMAIN d \cup {key} |-> IF k = key THEN v ELSE d[k]]

\* Python truth value of a list or a dict.
Truthy(v) == DOMAIN v # {}

key_scenarios ==
    <<"cascading_failure", "gradual_degradation", "high_failure",
      "recovery_stress_test">>

\* Mutant: a scenario is skipped only when no variant has a series.
skip_scenario_when_all_empty(baseline_ts, sh_ts, ml_ts) ==
    ~Truthy(baseline_ts) /\ ~Truthy(sh_ts) /\ ~Truthy(ml_ts)

\* if not baseline_ts or not sh_ts or not ml_ts: continue
skip_scenario(baseline_ts, sh_ts, ml_ts) ==
    ~Truthy(baseline_ts) \/ ~Truthy(sh_ts) \/ ~Truthy(ml_ts)

\* scenario.get(variant, {}).get('timeSeries', [])
time_series_of(scenario, variant) ==
    dict_get(dict_get(scenario, variant, EmptyDict), "timeSeries", <<>>)

\* The scenario's three series pass the test above.
usable(scenario) ==
    ~skip_scenario(time_series_of(scenario, "baseline"),
                   time_series_of(scenario, "selfHealing"),
                   time_series_of(scenario, "selfHealingML"))

Names(sc) == [i \in 1..Len(sc) |-> sc[i].name]

\* scenarios[name], for a name that is a key.
Lookup(sc, n) == (CHOOSE i \in 1..Len(sc) : sc[i].name = n)

InSeq(sq, v) == \E i \in 1..Len(sq) : sq[i] = v

\* d * (y[1:] + y[:-1]) / 2.0, for d = diff(x): one term per interval,
\* each operation rounded.
trapz_terms(y, x) ==
    [i \in 1..(Len(x) - 1) |->
        fl_div_int(fl_mul(fl_from_int(x[i + 1] - x[i]),
                          fl_add(y[i + 1], y[i])), 2)]

\* Mutant: the sum of the two ordinates is not halved.
np_trapz_not_halved(y, x) ==
    fl_sum([i \in 1..(Len(x) - 1) |->
               fl_mul(fl_from_int(x[i + 1] - x[i]), fl_add(y[i + 1], y[i]))])

\* np.trapz(y, x): the terms added one after the other.
np_trapz(y, x) == fl_sum(trapz_terms(y, x))

Column(ts, field) == [i \in 1..Len(ts) |-> ts[i][field]]

\* create_recovery_curves: one image per stress scenario that is in the
\* record and has three non-empty series.
create_recovery_curves(sc) ==
    LET plotted == SelectSeq(stress_scenarios,
                       LAMBDA n : InSeq(Names(sc), n)
                                  /\ usable(sc[Lookup(sc, n)].value))
    IN  [ret |-> Returned([plotted |-> plotted]),
         written |-> {RecoveryCurvePath(plotted[i]) : i \in 1..Len(plotted)}]

\* create_mttr_comparison: the scenarios whose MTTR is computed, those of
\* them charted, and the image written unless none is charted.
mttr_of_entry(entry) ==
    [name |-> entry.name,
     baseline |-> calculate_mttr(time_series_of(entry.value, "baseline")),
     sh |-> calculate_mttr(time_series_of(entry.value, "selfHealing")),
     ml |-> calculate_mttr(time_series_of(entry.value, "selfHealingML"))]

\* Mutant: a scenario is charted when some MTTR differs from 0.
has_positive_mttr_nonzero(v) ==
    \/ ~RatEq(v.baseline, IntVal(0))
    \/ ~RatEq(v.sh, IntVal(0))
    \/ ~RatEq(v.ml, IntVal(0))

\* if baseline_mttr_val > 0 or sh_mttr_val > 0 or ml_mttr_val > 0:
has_positive_mttr(v) ==
    \/ RatGt(v.baseline, IntVal(0))
    \/ RatGt(v.sh, IntVal(0))
    \/ RatGt(v.ml, IntVal(0))

\* scenario_name.replace('_', '\n')
RECURSIVE axis_label(_)
axis_label(scenario_name) ==
    IF scenario_name = "" THEN ""
    ELSE LET head == SubSeq(scenario_name, 1, 1)
             tail == SubSeq(scenario_name, 2, Len(scenario_name))
         IN  (IF head = "_" THEN "\n" ELSE head) \o axis_label(tail)

create_mttr_comparison(sc) ==
    LET considered == SelectSeq(sc, LAMBDA e : usable(e.value))
        values == [i \in 1..Len(considered) |-> mttr_of_entry(considered[i])]
        charted == SelectSeq(values, has_positive_mttr)
    IN  [ret |-> Returned([considered |-> Names(considered),
                           scenario_names |-> [i \in 1..Len(charted) |->
                                                  axis_label(charted[i].name)],
                           baseline_mttr |-> [i \in 1..Len(charted) |-> charted[i].baseline],
                           sh_mttr |-> [i \in 1..Len(charted) |-> charted[i].sh],
                           ml_mttr |-> [i \in 1..Len(charted) |-> charted[i].ml],
                           warned |-> charted = <<>>]),
         written |-> IF charted = <<>> THEN {}
                     ELSE {"charts/mttr_comparison.png"}]

\* create_latency_area_under_curve: one panel per key scenario that is in
\* the record and has three non-empty series; the image is always written.
auc_of(ts) == np_trapz(Column(ts, "avgLatency"), Column(ts, "requestNumber"))

\* The panels drawn: one per key scenario in the record with three
\* non-empty series, each with the three areas.
auc_panels(sc) ==
    LET drawn == {idx \in 1..Len(key_scenarios) :
                     /\ InSeq(Names(sc), key_scenarios[idx])
                     /\ usable(sc[Lookup(sc, key_scenarios[idx])].value)}
        panel(idx) ==
            LET scenario == sc[Lookup(sc, key_scenarios[idx])].value
            IN  [name |-> key_scenarios[idx],
                 baseline_auc |-> auc_of(time_series_of(scenario, "baseline")),
                 sh_auc |-> auc_of(time_series_of(scenario, "selfHealing")),
                 ml_auc |-> auc_of(time_series_of(scenario, "selfHealingML"))]
    IN  [idx \in drawn |-> panel(idx)]

\* The status line printed after savefig, without its leading mark.
AucStatusLine == "Created: charts/latency_auc_comparison.png"

\* Mutant: like create_mttr_comparison, nothing is written or printed when
\* no panel holds data.
create_latency_area_under_curve_unless_empty(sc) ==
    LET panels == auc_panels(sc)
    IN  IF DOMAIN panels = {}
        THEN [ret |-> Returned([panels |-> panels, printed |-> <<>>]),
              written |-> {}]
        ELSE [ret |-> Returned([panels |-> panels,
                                printed |-> <<AucStatusLine>>]),
              written |-> {"charts/latency_auc_comparison.png"}]

create_latency_area_under_curve(sc) ==
    [ret |-> Returned([panels |-> auc_panels(sc),
                       printed |-> <<AucStatusLine>>]),
     written |-> {"charts/latency_auc_comparison.png"}]

\* Axes.bar(x, height): the two are broadcast to one shape, or ValueError.
bar_broadcasts(x_len, height_len) ==
    x_len = height_len \/ x_len = 1 \/ height_len = 1

\* create_ml_learning_curves: the lists of the first panel get an element
\* only for a scenario with a non-empty predictionAccuracy; the bars are
\* drawn at one position per scenario.
create_ml_learning_curves(sc) ==
    LET with_acc == SelectSeq(sc, LAMBDA e :
                        Truthy(dict_get(dict_get(e.value, "selfHealingML", EmptyDict),
                                        "predictionAccuracy", EmptyDict)))
        acc(i) == with_acc[i].value["selfHealingML"]["predictionAccuracy"]
        locals == [scenario_names |-> Names(sc),
                   scored |-> Names(with_acc),
                   f1_scores |-> [i \in 1..Len(with_acc) |->
                                     dict_get(acc(i), "f1Score", 0)],
                   precisions |-> [i \in 1..Len(with_acc) |->
                                     dict_get(acc(i), "precision", 0)],
                   recalls |-> [i \in 1..Len(with_acc) |->
                                     dict_get(acc(i), "recall", 0)],
                   x |-> [i \in 1..Len(sc) |-> i - 1]]
    IN  IF bar_broadcasts(Len(locals.x), Len(locals.precisions))
        THEN [ret |-> Returned(locals), locals |-> locals,
              written |-> {"charts/ml_comprehensive_analysis.png"}]
        ELSE [ret |-> Raised("ValueError"), locals |-> locals, written |-> {}]

\* create_scenario_comparison: scenarios[name][variant].get(metric, 0)
create_scenario_comparison(sc) ==
    IF \E i \in 1..Len(sc) : \E k \in 1..3 : Variants[k] \notin DOMAIN sc[i].value
    THEN [ret |-> Raised("KeyError"), written |-> {}]
    ELSE [ret |-> Returned([scenario_names |-> Names(sc),
                            successRate |-> [i \in 1..Len(sc) |->
                                [k \in 1..3 |-> dict_get(sc[i].value[Variants[k]],
                                                         "successRate", 0)]]]),
          written |-> {"charts/scenario_comparison.png"}]

(***************************************************************************)
(* Specification SpecViz: one experiment-driven chart function of          *)
(* visualize_metrics called on a bounded experiment record.                *)
(***************************************************************************)
VPt(r, h, lat) ==
    [requestNumber |-> r, hitRate |-> h, successRate |-> 99,
     avgLatency |-> fl_from_int(lat)]

\* A series with one failure that recovers, and one that never fails.
SeriesRecovering == <<VPt(1, 99, 10), VPt(2, 85, 30), VPt(3, 80, 40), VPt(4, 96, 12)>>
SeriesSteady == <<VPt(1, 99, 10), VPt(3, 96, 10)>>

BaseMetrics == SampleMetrics(1)

\* A scenario, or a variant of a scenario, that the record does not hold.
NotThere == [absent |-> TRUE]

WithSeries(ts) == WithField(BaseMetrics, "timeSeries", ts)

BaselineChoices ==
    {BaseMetrics, WithSeries(<<>>), WithSeries(SeriesRecovering),
     WithSeries(SeriesSteady)}
SelfHealingChoices ==
    {NotThere, WithSeries(SeriesRecovering), WithSeries(SeriesSteady)}
MLChoices ==
    {WithSeries(<<>>), WithSeries(SeriesRecovering), WithSeries(SeriesSteady)}

PredictionAccuracy ==
    [f1Score |-> 80, precision |-> 75, recall |-> 85, totalPredictions |-> 10]

MLAccuracyChoices ==
    {NotThere, BaseMetrics,
     WithField(BaseMetrics, "predictionAccuracy", EmptyDict),
     WithField(BaseMetrics, "predictionAccuracy", PredictionAccuracy)}

\* A Scenario Result holding the variants that are there.
MkScenario(b, sh, ml) ==
    LET all == [baseline |-> b, selfHealing |-> sh, selfHealingML |-> ml]
    IN  [v \in {w \in DOMAIN all : all[w] # NotThere} |-> all[v]]

SeriesScenarios ==
    {MkScenario(b, sh, ml) : b \in BaselineChoices, sh \in SelfHealingChoices,
                             ml \in MLChoices}

AccuracyScenarios ==
    {MkScenario(BaseMetrics, BaseMetrics, ml) : ml \in MLAccuracyChoices}

VizScenarioNames == <<"cascading_failure", "high_failure", "cache_corruption">>

\* The record holding, in order, the scenarios that are there.
RecordOf(choice) ==
    SelectSeq([i \in 1..Len(VizScenarioNames) |->
                  [name |-> VizScenarioNames[i], value |-> choice[i]]],
              LAMBDA e : e.value # NotThere)

\* A series of n points, `step` requests apart, with the latency L.
ConstantSeries(L, n, step) ==
    [i \in 1..n |->
        [requestNumber |-> 1 + (i - 1) * step, hitRate |-> 96,
         successRate |-> 99, avgLatency |-> L]]

\* Latencies of one binade, [8, 16) ms.
LatencySamples ==
    {Float(m, 4 - Precision) : m \in Pow2(Precision - 1)..(Pow2(Precision) - 1)}

\* Records of one key scenario whose variants have a constant latency.
LatencyRecords ==
    {<<[name |-> "high_failure",
        value |-> MkScenario(WithSeries(ConstantSeries(L, n, step)),
                             WithSeries(ConstantSeries(L, n, 1)),
                             WithSeries(ConstantSeries(L, 2, step)))]>> :
        L \in LatencySamples, n \in 2..MaxLen, step \in 1..MaxReq}

\* A series whose requestNumber goes backwards: its one recovery time is
\* negative.
SeriesDisordered == <<VPt(4, 85, 30), VPt(2, 96, 12)>>

\* Records of one scenario whose variants never fail or recover backwards.
DisorderedRecords ==
    {<<[name |-> "high_failure",
        value |-> MkScenario(WithSeries(b), WithSeries(sh), WithSeries(ml))]>> :
        b \in {SeriesSteady, SeriesDisordered},
        sh \in {SeriesSteady, SeriesDisordered},
        ml \in {SeriesSteady, SeriesDisordered}}

VizRecords ==
    {RecordOf(ch) : ch \in [1..Len(VizScenarioNames) ->
                               SeriesScenarios \cup {NotThere}]}
    \cup LatencyRecords
    \cup DisorderedRecords
    \cup {RecordOf(ch) : ch \in [1..Len(VizScenarioNames) ->
                               AccuracyScenarios \cup {NotThere}]}

InitViz ==
    /\ pc = "viz_call"
    /\ scenarios \in VizRecords
    /\ MttrIdle
    /\ DiskIdle
    /\ MainIdle
    /\ OrderIdle
    /\ outcome = Idle
    /\ result = Idle
    /\ files = {}

\* A chart function runs to its end on the record.
VizCall(fname, r, locals) ==
    /\ pc = "viz_call"
    /\ pc' = fname
    /\ outcome' = IF r.ret.ok THEN "ok" ELSE r.ret.exc
    /\ result' = locals
    /\ files' = files \cup r.written
    /\ UNCHANGED <<orderVars, mttrVars, diskVars, mainVars, scenarios>>

VizMlLearningCurves ==
    LET r == create_ml_learning_curves(scenarios)
    IN  VizCall("viz.create_ml_learning_curves", r, r.locals)

VizScenarioComparison ==
    LET r == create_scenario_comparison(scenarios)
    IN  VizCall("viz.create_scenario_comparison", r,
                IF r.ret.ok THEN r.ret.val ELSE Idle)

VizRecoveryCurves ==
    LET r == create_recovery_curves(scenarios)
    IN  VizCall("viz.create_recovery_curves", r, r.ret.val)

VizMttrComparison ==
    LET r == create_mttr_comparison(scenarios)
    IN  VizCall("viz.create_mttr_comparison", r, r.ret.val)

VizLatencyAreaUnderCurve ==
    LET r == create_latency_area_under_curve(scenarios)
    IN  VizCall("viz.create_latency_area_under_curve", r, r.ret.val)

NextViz ==
    \/ VizMlLearningCurves
    \/ VizScenarioComparison
    \/ VizRecoveryCurves
    \/ VizMttrComparison
    \/ VizLatencyAreaUnderCurve

SpecViz == InitViz /\ [][NextViz]_vars

(***************************************************************************)
(* Which scenarios have a series for every variant, stated from the        *)
(* record alone.                                                           *)
(***************************************************************************)
HasSeries(entry, variant) ==
    /\ variant \in DOMAIN entry.value
    /\ "timeSeries" \in DOMAIN entry.value[variant]
    /\ entry.value[variant]["timeSeries"] # <<>>

AllSeries(entry) == \A k \in 1..3 : HasSeries(entry, Variants[k])

\* Names of the scenarios of the record, among `wanted`, with all series.
WithAllSeries(sc, wanted) ==
    {e.name : e \in {d \in Range(sc) : d.name \in wanted /\ AllSeries(d)}}

\* C7: in create_recovery_curves, create_mttr_comparison and
\* create_latency_area_under_curve, a scenario in which any of the three
\* variants has a missing or empty timeSeries is skipped, no error is
\* raised, and every other scenario the chart looks at is still processed.
C7_ScenarioWithoutSeriesSkipped ==
    /\ pc = "viz.create_recovery_curves" =>
          /\ outcome = "ok"
          /\ Range(result.plotted)
                = WithAllSeries(scenarios, Range(stress_scenarios))
          /\ files = {RecoveryCurvePath(n) :
                         n \in WithAllSeries(scenarios, Range(stress_scenarios))}
    /\ pc = "viz.create_mttr_comparison" =>
          /\ outcome = "ok"
          /\ Range(result.considered)
                = WithAllSeries(scenarios, Range(Names(scenarios)))
    /\ pc = "viz.create_latency_area_under_curve" =>
          /\ outcome = "ok"
          /\ {result.panels[i].name : i \in DOMAIN result.panels}
                = WithAllSeries(scenarios, Range(key_scenarios))

C7_Witness ==
    /\ pc = "viz.create_mttr_comparison"
    /\ Len(scenarios) = 3
    /\ "timeSeries" \notin DOMAIN scenarios[1].value["baseline"]
    /\ AllSeries(scenarios[2])
    /\ "timeSeries" \in DOMAIN scenarios[3].value["selfHealingML"]
    /\ scenarios[3].value["selfHealingML"]["timeSeries"] = <<>>
    /\ result.considered = <<scenarios[2].name>>
    /\ outcome = "ok"

\* The entry has all three series and one of their MTTR values is > 0.
Qualifies(entry) ==
    /\ AllSeries(entry)
    /\ \E k \in 1..3 :
          RatGt(calculate_mttr(entry.value[Variants[k]]["timeSeries"]),
                IntVal(0))

\* `label` is `name` with a line break for every underscore.
IsLabelOf(label, name) ==
    /\ Len(label) = Len(name)
    /\ \A i \in 1..Len(name) :
          SubSeq(label, i, i) = IF SubSeq(name, i, i) = "_" THEN "\n"
                                ELSE SubSeq(name, i, i)

\* C24: create_mttr_comparison includes a scenario in the chart if and only
\* if all three variants have a non-empty timeSeries and at least one of
\* the three MTTR values is > 0 (the scenarios charted are those, in the
\* record's order); when no scenario qualifies it prints the 'No MTTR data
\* available' warning and writes no mttr_comparison.png, and otherwise it
\* writes the image without the warning.
C24_ChartedIffRecoveryMeasured ==
    pc = "viz.create_mttr_comparison" =>
        LET qualifying == SelectSeq(scenarios, Qualifies)
        IN  /\ outcome = "ok"
            /\ Len(result.scenario_names) = Len(qualifying)
            /\ \A i \in 1..Len(qualifying) :
                  /\ IsLabelOf(result.scenario_names[i], qualifying[i].name)
                  /\ \A k \in 1..3 :
                        <<result.baseline_mttr, result.sh_mttr,
                          result.ml_mttr>>[k][i]
                          = calculate_mttr(
                                qualifying[i].value[Variants[k]]["timeSeries"])
            /\ result.warned = (qualifying = <<>>)
            /\ files = IF qualifying = <<>> THEN {}
                       ELSE {"charts/mttr_comparison.png"}

\* Three scenarios: one lacks a series, one has three series with no
\* recovery, and only the last is charted.
C24_Witness ==
    /\ pc = "viz.create_mttr_comparison"
    /\ Len(scenarios) = 3
    /\ ~AllSeries(scenarios[1])
    /\ AllSeries(scenarios[2]) /\ ~Qualifies(scenarios[2])
    /\ Qualifies(scenarios[3])
    /\ Len(result.scenario_names) = 1
    /\ IsLabelOf(result.scenario_names[1], scenarios[3].name)
    /\ result.scenario_names[1] # scenarios[3].name
    /\ files = {"charts/mttr_comparison.png"}

\* C28: create_latency_area_under_curve writes latency_auc_comparison.png
\* and prints its status line on every call, even when every key scenario
\* is absent or skipped for a missing timeSeries, so that no panel holds
\* data; create_mttr_comparison writes nothing when no scenario qualifies.
C28_AucImageAlwaysWritten ==
    /\ pc = "viz.create_latency_area_under_curve" =>
          /\ outcome = "ok"
          /\ files = {"charts/latency_auc_comparison.png"}
          /\ result.printed = <<AucStatusLine>>
    /\ (pc = "viz.create_mttr_comparison"
          /\ \A i \in 1..Len(scenarios) : ~Qualifies(scenarios[i]))
          => files = {} /\ result.warned

\* One key scenario is absent, another is there without a series, the
\* third scenario is not a key scenario: no panel holds data and the image
\* is written.
C28_Witness ==
    /\ pc = "viz.create_latency_area_under_curve"
    /\ \E n \in Range(key_scenarios) : n \notin Range(Names(scenarios))
    /\ \E e \in Range(scenarios) :
          e.name \in Range(key_scenarios) /\ ~AllSeries(e)
    /\ \E e \in Range(scenarios) :
          e.name \notin Range(key_scenarios) /\ AllSeries(e)
    /\ DOMAIN result.panels = {}
    /\ files = {"charts/latency_auc_comparison.png"}
    /\ result.printed = <<AucStatusLine>>

\* The chart functions of the three scripts, each with the paths it writes.
ChartFunctions == UNION {Range(MainCalls[script]) : script \in DOMAIN MainCalls}

ScenarioNameSamples ==
    Range(stress_scenarios) \cup Range(key_scenarios)
        \cup Range(VizScenarioNames)

\* C14: every output path is chart-specific: no two distinct chart
\* functions of the three scripts write the same path, the images a chart
\* function has written are at paths of that function only, and
\* create_recovery_curves writes a distinct path for each distinct scenario
\* name.
C14_PathsChartSpecific ==
    /\ \A f, g \in ChartFunctions :
          f.name # g.name => f.paths \cap g.paths = {}
    /\ \A f \in ChartFunctions :
          pc = "viz." \o f.name =>
              /\ files \subseteq f.paths
              /\ \A g \in ChartFunctions :
                    g.name # f.name => files \cap g.paths = {}
    /\ \A m, n \in ScenarioNameSamples :
          m # n => RecoveryCurvePath(m) # RecoveryCurvePath(n)
    /\ pc = "viz.create_recovery_curves" =>
          Cardinality(files) = Len(result.plotted)

C14_Witness ==
    /\ pc = "viz.create_recovery_curves"
    /\ result.plotted = <<"cascading_failure", "cache_corruption">>
    /\ files = {"charts/recovery_curve_cascading_failure.png",
                "charts/recovery_curve_cache_corruption.png"}

AucVariants ==
    [baseline |-> "baseline_auc", selfHealing |-> "sh_auc",
     selfHealingML |-> "ml_auc"]

\* The areas create_latency_area_under_curve computed, each with the series
\* it was computed from.
AreasComputed ==
    IF pc = "viz.create_latency_area_under_curve"
    THEN {[auc |-> result.panels[idx][AucVariants[v]],
           ts |-> time_series_of(
                      scenarios[Lookup(scenarios, key_scenarios[idx])].value,
                      v)] :
             idx \in DOMAIN result.panels, v \in DOMAIN AucVariants}
    ELSE {}

ConstantLatency(ts) ==
    \A i \in 1..Len(ts) : ts[i].avgLatency = ts[1].avgLatency

EvenlySpaced(ts) ==
    \A i \in 1..(Len(ts) - 1) :
        /\ ts[i + 1].requestNumber > ts[i].requestNumber
        /\ ts[i + 1].requestNumber - ts[i].requestNumber
              = ts[2].requestNumber - ts[1].requestNumber

\* max_request - min_request
RequestSpan(ts) == ts[Len(ts)].requestNumber - ts[1].requestNumber

\* The trapezoidal integral of the latency against the request number in
\* exact arithmetic, as an integer multiple of a power of two.
RECURSIVE LeastExponent(_, _)
LeastExponent(ts, n) ==
    IF n = 1 THEN ts[1].avgLatency.e
    ELSE Smaller(ts[n].avgLatency.e, LeastExponent(ts, n - 1))

RECURSIVE TwiceAreaUpTo(_, _, _)
TwiceAreaUpTo(ts, E, n) ==
    IF n <= 1 THEN 0
    ELSE (ts[n].requestNumber - ts[n - 1].requestNumber)
            * (ts[n].avgLatency.m * Pow2(ts[n].avgLatency.e - E)
                 + ts[n - 1].avgLatency.m * Pow2(ts[n - 1].avgLatency.e - E))
         + TwiceAreaUpTo(ts, E, n - 1)

ExactTrapezoid(ts) ==
    LET E == LeastExponent(ts, Len(ts))
    IN  Float(TwiceAreaUpTo(ts, E, Len(ts)), E - 1)

\* x is the exact value with a relative error of at most n roundings:
\* exact * (1 - n u) <= x and x * (1 - n u) <= exact, u = 2^-Precision.
WithinRoundingOf(x, exact, n) ==
    /\ fl_scaled_le(exact, Pow2(Precision) - n, x, Pow2(Precision))
    /\ fl_scaled_le(x, Pow2(Precision) - n, exact, Pow2(Precision))

\* C18 (as claimed): the area under a latency curve is the trapezoidal
\* integral of the latency against the request number; for a constant
\* latency L over evenly spaced request numbers it equals
\* L * (max_request - min_request).
C18_ConstantLatencyAreaIsProduct ==
    \A a \in AreasComputed :
        (ConstantLatency(a.ts) /\ EvenlySpaced(a.ts)) =>
            LET product == fl_mul(a.ts[1].avgLatency,
                                  fl_from_int(RequestSpan(a.ts)))
            IN  fl_le(a.auc, product) /\ fl_le(product, a.auc)

\* C18 (amended): the area under a latency curve of k points with
\* non-negative latencies and non-decreasing request numbers is the
\* trapezoidal integral of the latency against the request number up to the
\* rounding of the floating-point operations that compute it (a relative
\* error of at most k roundings); for a constant latency L over evenly
\* spaced request numbers it equals L * (max_request - min_request) up to
\* that rounding.
C18_AreaIsTrapezoidUpToRounding ==
    \A a \in AreasComputed :
        /\ NonDecreasing(a.ts) =>
              WithinRoundingOf(a.auc, ExactTrapezoid(a.ts), Len(a.ts))
        /\ (ConstantLatency(a.ts) /\ EvenlySpaced(a.ts)) =>
              WithinRoundingOf(a.auc,
                               Float(a.ts[1].avgLatency.m * RequestSpan(a.ts),
                                     a.ts[1].avgLatency.e),
                               Len(a.ts))

\* A constant latency whose area is not the rounded product.
C18_Witness ==
    \E a \in AreasComputed :
        /\ ConstantLatency(a.ts)
        /\ EvenlySpaced(a.ts)
        /\ Len(a.ts) = 4
        /\ ~fl_le(fl_mul(a.ts[1].avgLatency, fl_from_int(RequestSpan(a.ts))),
                  a.auc)
        /\ WithinRoundingOf(a.auc, ExactTrapezoid(a.ts), Len(a.ts))

\* The four stress scenario names.
StressNames ==
    {"cascading_failure", "gradual_degradation", "recovery_stress_test",
     "cache_corruption"}

\* The scenario is in the record with a non-empty series for each variant.
PresentWithAllSeries(n) ==
    \E e \in Range(scenarios) : e.name = n /\ AllSeries(e)

\* C20: create_recovery_curves writes exactly one file
\* charts/recovery_curve_<scenario>.png for each scenario that is one of
\* the four stress scenario names, is in the record, and has a non-empty
\* timeSeries for all three variants; it writes no other file.
C20_OneCurvePerStressScenario ==
    pc = "viz.create_recovery_curves" =>
        LET charted == {n \in StressNames : PresentWithAllSeries(n)}
        IN  /\ outcome = "ok"
            /\ files = {"charts/recovery_curve_" \o n \o ".png" : n \in charted}
            /\ Range(result.plotted) = charted
            /\ Len(result.plotted) = Cardinality(charted)
            /\ Cardinality(files) = Cardinality(charted)

C20_Witness ==
    /\ pc = "viz.create_recovery_curves"
    /\ PresentWithAllSeries("cascading_failure")
    /\ PresentWithAllSeries("high_failure")
    /\ \E e \in Range(scenarios) :
          e.name = "cache_corruption" /\ ~AllSeries(e)
    /\ files = {"charts/recovery_curve_cascading_failure.png"}

\* C9: in create_ml_learning_curves, when a scenario's selfHealingML record
\* lacks predictionAccuracy, that scenario's precision/recall/F1 point is
\* skipped and the chart is still produced without error: the value series
\* drawn and the x positions they are drawn at have the same length.
C9_MissingAccuracyStillCharted ==
    pc = "viz.create_ml_learning_curves" =>
        /\ outcome = "ok"
        /\ "charts/ml_comprehensive_analysis.png" \in files
        /\ Len(result.precisions) = Len(result.x)
        /\ Len(result.recalls) = Len(result.x)
        /\ Len(result.f1_scores) = Len(result.x)

====
